---- MODULE Spec2Model ----
(***************************************************************************)
(* A model of the portable AES / GCM core of src/aes.py.                   *)
(*                                                                         *)
(* Byte lists are sequences of naturals in 0..255 (Python index k is index *)
(* k + 1 here).  Every function of aes.py is an operator of the same name, *)
(* computed the way the code computes it.  A call that can raise returns a *)
(* result record: [ok |-> TRUE, val |-> v] for "return v" and              *)
(* [ok |-> FALSE, err |-> e] for "raise e".  The state machine is a caller *)
(* that holds argument buffers, invokes one operation at a time and keeps  *)
(* what the call returned or raised.                                       *)
(***************************************************************************)
EXTENDS Integers, Sequences, FiniteSets, TLC

\* aes.py:54
BLOCK_SIZE_BYTES == 16

(***************************************************************************)
(* Tables                                                                  *)
(***************************************************************************)
\* aes.py:339  RCON; Python index k is RCON[k + 1] here (sequences start at 1).
RCON ==
    << 141, 1, 2, 4, 8, 16, 32, 64, 128, 27, 54 >>

\* aes.py:340-355
SBOX ==
    << 99, 124, 119, 123, 242, 107, 111, 197, 48, 1, 103, 43, 254, 215, 171, 118,
       202, 130, 201, 125, 250, 89, 71, 240, 173, 212, 162, 175, 156, 164, 114, 192,
       183, 253, 147, 38, 54, 63, 247, 204, 52, 165, 229, 241, 113, 216, 49, 21,
       4, 199, 35, 195, 24, 150, 5, 154, 7, 18, 128, 226, 235, 39, 178, 117,
       9, 131, 44, 26, 27, 110, 90, 160, 82, 59, 214, 179, 41, 227, 47, 132,
       83, 209, 0, 237, 32, 252, 177, 91, 106, 203, 190, 57, 74, 76, 88, 207,
       208, 239, 170, 251, 67, 77, 51, 133, 69, 249, 2, 127, 80, 60, 159, 168,
       81, 163, 64, 143, 146, 157, 56, 245, 188, 182, 218, 33, 16, 255, 243, 210,
       205, 12, 19, 236, 95, 151, 68, 23, 196, 167, 126, 61, 100, 93, 25, 115,
       96, 129, 79, 220, 34, 42, 144, 136, 70, 238, 184, 20, 222, 94, 11, 219,
       224, 50, 58, 10, 73, 6, 36, 92, 194, 211, 172, 98, 145, 149, 228, 121,
       231, 200, 55, 109, 141, 213, 78, 169, 108, 86, 244, 234, 101, 122, 174, 8,
       186, 120, 37, 46, 28, 166, 180, 198, 232, 221, 116, 31, 75, 189, 139, 138,
       112, 62, 181, 102, 72, 3, 246, 14, 97, 53, 87, 185, 134, 193, 29, 158,
       225, 248, 152, 17, 105, 217, 142, 148, 155, 30, 135, 233, 206, 85, 40, 223,
       140, 161, 137, 13, 191, 230, 66, 104, 65, 153, 45, 15, 176, 84, 187, 22 >>

\* aes.py:356-371
SBOX_INV ==
    << 82, 9, 106, 213, 48, 54, 165, 56, 191, 64, 163, 158, 129, 243, 215, 251,
       124, 227, 57, 130, 155, 47, 255, 135, 52, 142, 67, 68, 196, 222, 233, 203,
       84, 123, 148, 50, 166, 194, 35, 61, 238, 76, 149, 11, 66, 250, 195, 78,
       8, 46, 161, 102, 40, 217, 36, 178, 118, 91, 162, 73, 109, 139, 209, 37,
       114, 248, 246, 100, 134, 104, 152, 22, 212, 164, 92, 204, 93, 101, 182, 146,
       108, 112, 72, 80, 253, 237, 185, 218, 94, 21, 70, 87, 167, 141, 157, 132,
       144, 216, 171, 0, 140, 188, 211, 10, 247, 228, 88, 5, 184, 179, 69, 6,
       208, 44, 30, 143, 202, 63, 15, 2, 193, 175, 189, 3, 1, 19, 138, 107,
       58, 145, 17, 65, 79, 103, 220, 234, 151, 242, 207, 206, 240, 180, 230, 115,
       150, 172, 116, 34, 231, 173, 53, 133, 226, 249, 55, 232, 28, 117, 223, 110,
       71, 241, 26, 113, 29, 41, 197, 137, 111, 183, 98, 14, 170, 24, 190, 27,
       252, 86, 62, 75, 198, 210, 121, 32, 154, 219, 192, 254, 120, 205, 90, 244,
       31, 221, 168, 51, 136, 7, 199, 49, 177, 18, 16, 89, 39, 128, 236, 95,
       96, 81, 127, 169, 25, 181, 74, 13, 45, 229, 122, 159, 147, 201, 156, 239,
       160, 224, 59, 77, 174, 42, 245, 176, 200, 235, 187, 60, 131, 83, 153, 97,
       23, 43, 4, 126, 186, 119, 214, 38, 225, 105, 20, 99, 85, 33, 12, 125 >>

\* aes.py:372-375
MIX_COLUMN_MATRIX ==
    << <<2, 3, 1, 1>>,
       <<1, 2, 3, 1>>,
       <<1, 1, 2, 3>>,
       <<3, 1, 1, 2>> >>

\* aes.py:376-379
MIX_COLUMN_MATRIX_INV ==
    << <<14, 11, 13, 9>>,
       <<9, 14, 11, 13>>,
       <<13, 9, 14, 11>>,
       <<11, 13, 9, 14>> >>

\* aes.py:380-395
RIJNDAEL_EXP_TABLE ==
    << 1, 3, 5, 15, 17, 51, 85, 255, 26, 46, 114, 150, 161, 248, 19, 53,
       95, 225, 56, 72, 216, 115, 149, 164, 247, 2, 6, 10, 30, 34, 102, 170,
       229, 52, 92, 228, 55, 89, 235, 38, 106, 190, 217, 112, 144, 171, 230, 49,
       83, 245, 4, 12, 20, 60, 68, 204, 79, 209, 104, 184, 211, 110, 178, 205,
       76, 212, 103, 169, 224, 59, 77, 215, 98, 166, 241, 8, 24, 40, 120, 136,
       131, 158, 185, 208, 107, 189, 220, 127, 129, 152, 179, 206, 73, 219, 118, 154,
       181, 196, 87, 249, 16, 48, 80, 240, 11, 29, 39, 105, 187, 214, 97, 163,
       254, 25, 43, 125, 135, 146, 173, 236, 47, 113, 147, 174, 233, 32, 96, 160,
       251, 22, 58, 78, 210, 109, 183, 194, 93, 231, 50, 86, 250, 21, 63, 65,
       195, 94, 226, 61, 71, 201, 64, 192, 91, 237, 44, 116, 156, 191, 218, 117,
       159, 186, 213, 100, 172, 239, 42, 126, 130, 157, 188, 223, 122, 142, 137, 128,
       155, 182, 193, 88, 232, 35, 101, 175, 234, 37, 111, 177, 200, 67, 197, 84,
       252, 31, 33, 99, 165, 244, 7, 9, 27, 45, 119, 153, 176, 203, 70, 202,
       69, 207, 74, 222, 121, 139, 134, 145, 168, 227, 62, 66, 198, 81, 243, 14,
       18, 54, 90, 238, 41, 123, 141, 140, 143, 138, 133, 148, 167, 242, 13, 23,
       57, 75, 221, 124, 132, 151, 162, 253, 28, 36, 108, 180, 199, 82, 246, 1 >>

\* aes.py:396-411
RIJNDAEL_LOG_TABLE ==
    << 0, 0, 25, 1, 50, 2, 26, 198, 75, 199, 27, 104, 51, 238, 223, 3,
       100, 4, 224, 14, 52, 141, 129, 239, 76, 113, 8, 200, 248, 105, 28, 193,
       125, 194, 29, 181, 249, 185, 39, 106, 77, 228, 166, 114, 154, 201, 9, 120,
       101, 47, 138, 5, 33, 15, 225, 36, 18, 240, 130, 69, 53, 147, 218, 142,
       150, 143, 219, 189, 54, 208, 206, 148, 19, 92, 210, 241, 64, 70, 131, 56,
       102, 221, 253, 48, 191, 6, 139, 98, 179, 37, 226, 152, 34, 136, 145, 16,
       126, 110, 72, 195, 163, 182, 30, 66, 58, 107, 40, 84, 250, 133, 61, 186,
       43, 121, 10, 21, 155, 159, 94, 202, 78, 212, 172, 229, 243, 115, 167, 87,
       175, 88, 168, 80, 244, 234, 214, 116, 79, 174, 233, 213, 231, 230, 173, 232,
       44, 215, 117, 122, 235, 22, 11, 245, 89, 203, 95, 176, 156, 169, 81, 160,
       127, 12, 246, 111, 23, 196, 73, 236, 216, 67, 31, 45, 164, 118, 123, 183,
       204, 187, 62, 90, 251, 96, 177, 134, 59, 82, 161, 108, 170, 85, 41, 157,
       151, 178, 135, 144, 97, 190, 220, 252, 188, 149, 207, 205, 55, 63, 91, 209,
       83, 57, 132, 60, 65, 162, 109, 71, 20, 42, 158, 93, 86, 242, 211, 171,
       68, 17, 146, 217, 35, 32, 46, 137, 180, 124, 184, 38, 119, 153, 227, 165,
       103, 74, 237, 222, 197, 49, 254, 24, 13, 99, 140, 128, 192, 247, 112, 7 >>

(***************************************************************************)
(* Python built-ins the code relies on                                     *)
(***************************************************************************)
Min(a, b) == IF a < b THEN a ELSE b

Max(a, b) == IF a > b THEN a ELSE b

\* seq[start:stop] with Python's clamping and negative indices.
PySlice(s, start, stop) ==
    LET n  == Len(s)
        lo == IF start < 0 THEN Max(n + start, 0) ELSE Min(start, n)
        hi == IF stop < 0 THEN Max(n + stop, 0) ELSE Min(stop, n)
    IN  IF hi <= lo THEN << >> ELSE SubSeq(s, lo + 1, hi)

\* seq[start:]
PySliceFrom(s, start) == PySlice(s, start, Len(s))

\* A list built element by element (a comprehension, or [x] * n) is a list:
\* the tuple with the same elements, built once.
List(f) == f \o << >>

\* A statement's value is computed where the statement stands, before the next
\* statement runs: Computed(v) is TRUE once v has been worked out.
Computed(v) == v = v

\* [x] * n  (empty for n <= 0)
Repeat(x, n) == List([i \in 1..n |-> x])

\* what a call returns, and what it raises
NoError == [kind |-> "none", msg |-> ""]

Ok(v) == [ok |-> TRUE, val |-> v, err |-> NoError]

Raise(kind, msg) == [ok |-> FALSE, val |-> << >>, err |-> [kind |-> kind, msg |-> msg]]

\* int(ceil(float(n) / BLOCK_SIZE_BYTES))
BlockCount(n) == (n + BLOCK_SIZE_BYTES - 1) \div BLOCK_SIZE_BYTES

\* the i-th (from 0) 16-byte chunk: data[i * 16: (i + 1) * 16]
Chunk(data, i) == PySlice(data, i * BLOCK_SIZE_BYTES, (i + 1) * BLOCK_SIZE_BYTES)

\* n.to_bytes(width, 'big') as an int list
RECURSIVE to_bytes(_, _)
to_bytes(n, width) ==
    IF width = 0 THEN << >> ELSE Append(to_bytes(n \div 256, width - 1), n % 256)

\* bit k of x
Bit(x, k) == (x \div (2 ^ k)) % 2

\* x ^ y on 4-bit values, bit by bit, tabulated
XorNibble ==
    [a \in 0..15 |-> [b \in 0..15 |->
        ((Bit(a, 0) + Bit(b, 0)) % 2)
      + ((Bit(a, 1) + Bit(b, 1)) % 2) * 2
      + ((Bit(a, 2) + Bit(b, 2)) % 2) * 4
      + ((Bit(a, 3) + Bit(b, 3)) % 2) * 8]]

\* x ^ y on bytes
BXor(x, y) == XorNibble[x % 16][y % 16] + XorNibble[x \div 16][y \div 16] * 16

(***************************************************************************)
(* Block transform helpers                                                 *)
(***************************************************************************)
\* aes.py:473  zip stops at the shorter list
xor(data1, data2) ==
    List([i \in 1..Min(Len(data1), Len(data2)) |-> BXor(data1[i], data2[i])])

\* aes.py:453
sub_bytes(data) == List([i \in 1..Len(data) |-> SBOX[data[i] + 1]])

\* aes.py:457
sub_bytes_inv(data) == List([i \in 1..Len(data) |-> SBOX_INV[data[i] + 1]])

\* aes.py:461  data[0] of an empty list raises
rotate(data) ==
    IF Len(data) = 0
    THEN Raise("IndexError", "list index out of range")
    ELSE Ok(Append(Tail(data), data[1]))

\* aes.py:470  data[0] ^= RCON[rcon_iteration]
CoreRcon(data, rcon_iteration) ==
    Ok([data EXCEPT ![1] = BXor(data[1], RCON[rcon_iteration + 1])])

\* aes.py:467-470  after rotate: r is what rotate returned
CoreSubstitute(r, rcon_iteration) ==
    IF ~r.ok THEN r
    ELSE IF rcon_iteration >= Len(RCON)
    THEN Raise("IndexError", "tuple index out of range")
    ELSE CoreRcon(sub_bytes(r.val), rcon_iteration)

\* aes.py:465
key_schedule_core(data, rcon_iteration) == CoreSubstitute(rotate(data), rcon_iteration)

\* GFMul with the log sum reduced modulo 256 instead of 255
GFMul_Mod256(a, b) ==
    IF a = 0 \/ b = 0 THEN 0
    ELSE RIJNDAEL_EXP_TABLE[((RIJNDAEL_LOG_TABLE[a + 1] + RIJNDAEL_LOG_TABLE[b + 1]) % 256) + 1]

\* aes.py:483-484  one GF(2^8) product of iter_mix_columns
GFMul(a, b) ==
    IF a = 0 \/ b = 0 THEN 0
    ELSE RIJNDAEL_EXP_TABLE[((RIJNDAEL_LOG_TABLE[a + 1] + RIJNDAEL_LOG_TABLE[b + 1]) % 255) + 1]

\* aes.py:477  output byte i + r is row r of the matrix times column i
iter_mix_columns(data, matrix) ==
    List([k \in 1..16 |->
        LET i   == ((k - 1) \div 4) * 4
            row == matrix[((k - 1) % 4) + 1]
        IN  BXor(BXor(GFMul(data[i + 1], row[1]), GFMul(data[i + 2], row[2])),
                 BXor(GFMul(data[i + 3], row[3]), GFMul(data[i + 4], row[4])))])

\* aes.py:488
shift_rows(data) ==
    List([k \in 1..16 |->
        LET column == (k - 1) \div 4
            row    == (k - 1) % 4
        IN  data[(((column + row) % 4) * 4) + row + 1]])

\* shift_rows_inv shifting the rows the forward way
shift_rows_inv_Forward(data) ==
    List([k \in 1..16 |->
        LET column == (k - 1) \div 4
            row    == (k - 1) % 4
        IN  data[(((column + row) % 4) * 4) + row + 1]])

\* aes.py:492  (column - row) & 0b11 is the non-negative residue
shift_rows_inv(data) ==
    List([k \in 1..16 |->
        LET column == (k - 1) \div 4
            row    == (k - 1) % 4
        IN  data[(((column - row + 4) % 4) * 4) + row + 1]])

(***************************************************************************)
(* Key schedule                                                            *)
(***************************************************************************)
\* aes.py:427,430 and its repeats: data += xor(temp, data[-key_size: 4 - key_size])
ExpandWord(data, temp, key_size_bytes) ==
    data \o xor(temp, PySlice(data, -key_size_bytes, 4 - key_size_bytes))

\* aes.py:432-434, 441-443: n plain words
RECURSIVE ExpandPlain(_, _, _)
ExpandPlain(data, key_size_bytes, n) ==
    IF n = 0 THEN data
    ELSE ExpandPlain(ExpandWord(data, PySliceFrom(data, -4), key_size_bytes),
                     key_size_bytes, n - 1)

\* aes.py:436-443: the extra word of a 32-byte key, then the plain words of a
\* 32-byte (3) or 24-byte (2) key
ExpandExtra(data, key_size_bytes) ==
    ExpandPlain(IF key_size_bytes = 32
                THEN ExpandWord(data, sub_bytes(PySliceFrom(data, -4)), key_size_bytes)
                ELSE data,
                key_size_bytes,
                IF key_size_bytes = 32 THEN 3 ELSE IF key_size_bytes = 24 THEN 2 ELSE 0)

RECURSIVE ExpandLoop(_, _, _, _)
\* aes.py:427-443: one pass of the while loop; core is what key_schedule_core
\* returned at line 427
ExpandRound(data, core, rcon_iteration, key_size_bytes, expanded_key_size_bytes) ==
    IF ~core.ok THEN core
    ELSE ExpandLoop(ExpandExtra(ExpandPlain(ExpandWord(data, core.val, key_size_bytes),
                                            key_size_bytes, 3),
                                key_size_bytes),
                    rcon_iteration + 1, key_size_bytes, expanded_key_size_bytes)

\* aes.py:426-444: the while loop and the final cut
ExpandLoop(data, rcon_iteration, key_size_bytes, expanded_key_size_bytes) ==
    IF Len(data) >= expanded_key_size_bytes
    THEN Ok(PySlice(data, 0, expanded_key_size_bytes))
    ELSE ExpandRound(data, key_schedule_core(PySliceFrom(data, -4), rcon_iteration),
                     rcon_iteration, key_size_bytes, expanded_key_size_bytes)

\* key_expansion stopping one round key early
key_expansion_RoundShort(data) ==
    ExpandLoop(data, 1, Len(data), (Len(data) \div 4 + 6) * BLOCK_SIZE_BYTES)

\* aes.py:414
key_expansion(data) ==
    ExpandLoop(data, 1, Len(data), (Len(data) \div 4 + 7) * BLOCK_SIZE_BYTES)

(***************************************************************************)
(* Single block                                                            *)
(*                                                                         *)
(* shift_rows and shift_rows_inv index data[0..15]: on a state shorter     *)
(* than 16 bytes the list index raises IndexError.  A longer block is cut  *)
(* to 16 bytes by the first xor (zip) with the 16-byte round key.          *)
(***************************************************************************)
\* aes.py:285-286, 304-305: the mix step, skipped in round `rounds`
MixUnlessLast(data, matrix, i, rounds) ==
    IF i # rounds THEN iter_mix_columns(data, matrix) ELSE data

\* aes.py:282-287: rounds i..rounds of aes_encrypt
RECURSIVE EncryptRounds(_, _, _, _)
EncryptRounds(data, expanded_key, i, rounds) ==
    IF i > rounds THEN Ok(data)
    ELSE IF Len(data) < BLOCK_SIZE_BYTES
    THEN Raise("IndexError", "list index out of range")
    ELSE EncryptRounds(xor(MixUnlessLast(shift_rows(sub_bytes(data)), MIX_COLUMN_MATRIX,
                                         i, rounds),
                           Chunk(expanded_key, i)),
                       expanded_key, i + 1, rounds)

\* aes.py:271
aes_encrypt(data, expanded_key) ==
    EncryptRounds(xor(data, PySlice(expanded_key, 0, BLOCK_SIZE_BYTES)),
                  expanded_key, 1, Len(expanded_key) \div BLOCK_SIZE_BYTES - 1)

\* aes.py:302-307: rounds i..1 of aes_decrypt
RECURSIVE DecryptRounds(_, _, _, _)
DecryptRounds(data, expanded_key, i, rounds) ==
    IF i < 1 THEN Ok(data)
    ELSE IF Len(data) < BLOCK_SIZE_BYTES
    THEN Raise("IndexError", "list index out of range")
    ELSE DecryptRounds(
             sub_bytes_inv(shift_rows_inv(
                 MixUnlessLast(xor(data, Chunk(expanded_key, i)), MIX_COLUMN_MATRIX_INV,
                               i, rounds))),
             expanded_key, i - 1, rounds)

\* aes.py:308: the last xor, with the first round key; r is the state after
\* the rounds
DecryptFinal(r, expanded_key) ==
    IF ~r.ok THEN r
    ELSE Ok(xor(r.val, PySlice(expanded_key, 0, BLOCK_SIZE_BYTES)))

\* aes.py:292
aes_decrypt(data, expanded_key) ==
    DecryptFinal(DecryptRounds(data, expanded_key,
                               Len(expanded_key) \div BLOCK_SIZE_BYTES - 1,
                               Len(expanded_key) \div BLOCK_SIZE_BYTES - 1),
                 expanded_key)

(***************************************************************************)
(* Padding                                                                 *)
(***************************************************************************)
\* aes.py:57  data[-1] of an empty list raises; data[:-0] is data[:0]
unpad_pkcs7(data) ==
    IF Len(data) = 0
    THEN Raise("IndexError", "list index out of range")
    ELSE Ok(PySlice(data, 0, -data[Len(data)]))

\* aes.py:61
pkcs7_padding(data) ==
    LET remaining_length == BLOCK_SIZE_BYTES - (Len(data) % BLOCK_SIZE_BYTES)
    IN  data \o Repeat(remaining_length, remaining_length)

\* aes.py:81-86  the keys of PADDING_BYTE
PADDING_MODES == {"pkcs7", "iso7816", "whitespace", "zero"}

\* aes.py:81-86  PADDING_BYTE[padding_mode]
PADDING_BYTE(padding_mode, padding_size) ==
    CASE padding_mode = "pkcs7"      -> padding_size
      [] padding_mode = "iso7816"    -> 0
      [] padding_mode = "whitespace" -> 32
      [] padding_mode = "zero"       -> 0

\* pad_block with the 0x80 marker appended in place (block += [0x80]): the
\* caller's list gets the marker
PadBlockArg_InPlace(block, padding_mode) ==
    IF Len(block) < BLOCK_SIZE_BYTES /\ padding_mode = "iso7816"
    THEN Append(block, 128)
    ELSE block

\* aes.py:93-97  the caller's list when the call ends: line 94 binds the name
\* block to a new list ([*block, 0x80]) and line 97 builds the result with +,
\* so no statement writes to the list that was passed in
PadBlockArg(block, padding_mode) == block

\* pad_block without the test of line 88
pad_block_NoSizeCheck(block, padding_mode) ==
    IF padding_mode \notin PADDING_MODES
    THEN Raise("NotImplementedError", "Padding mode is not implemented")
    ELSE Ok(block \o Repeat(PADDING_BYTE(padding_mode, BLOCK_SIZE_BYTES - Len(block)),
                            BLOCK_SIZE_BYTES - Len(block)))

\* aes.py:73
pad_block(block, padding_mode) ==
    LET padding_size == BLOCK_SIZE_BYTES - Len(block)
    IN  IF padding_size < 0
        THEN Raise("ValueError", "Block size exceeded")
        ELSE IF padding_mode \notin PADDING_MODES
        THEN Raise("NotImplementedError", "Padding mode is not implemented")
        ELSE IF padding_mode = "iso7816" /\ padding_size # 0
        THEN Ok(Append(block, 128) \o Repeat(PADDING_BYTE(padding_mode, padding_size),
                                             padding_size - 1))
        ELSE Ok(block \o Repeat(PADDING_BYTE(padding_mode, padding_size), padding_size))

(***************************************************************************)
(* Counter                                                                 *)
(***************************************************************************)
\* aes.py:512-517: the loop of inc, at Python index i
RECURSIVE IncLoop(_, _)
IncLoop(data, i) ==
    IF i < 0 THEN data
    ELSE IF data[i + 1] = 255
    THEN IncLoop([data EXCEPT ![i + 1] = 0], i - 1)
    ELSE [data EXCEPT ![i + 1] = data[i + 1] + 1]

\* only the last byte counts, and it wraps without a carry
inc_NoCarry(data) ==
    IF Len(data) = 0 THEN data
    ELSE [data EXCEPT ![Len(data)] = (data[Len(data)] + 1) % 256]

\* aes.py:510
inc(data) == IncLoop(data, Len(data) - 1)

\* aes.py:511  the caller's list when inc returns: the loop wrote to the copy
IncArg(data) == data

\* aes.py:447  the n-th value (from 0) the generator yields
RECURSIVE iter_vector(_, _)
iter_vector(iv, n) == IF n = 0 THEN iv ELSE iter_vector(inc(iv), n - 1)

(***************************************************************************)
(* Chaining modes                                                          *)
(***************************************************************************)
\* aes.py:167-168, 191-192: block += [0] * (BLOCK_SIZE_BYTES - len(block))
ZeroFill(block) == block \o Repeat(0, BLOCK_SIZE_BYTES - Len(block))

RECURSIVE EcbEncryptLoop(_, _, _, _)
\* aes.py:115: encrypted_data += e, e the encrypted block
EcbEncryptStep(data, expanded_key, i, encrypted_data, e) ==
    IF ~e.ok THEN e
    ELSE EcbEncryptLoop(data, expanded_key, i + 1, encrypted_data \o e.val)

\* aes.py:113-115: blocks i.. of aes_ecb_encrypt
EcbEncryptLoop(data, expanded_key, i, encrypted_data) ==
    IF i >= BlockCount(Len(data)) THEN Ok(encrypted_data)
    ELSE EcbEncryptStep(data, expanded_key, i, encrypted_data,
                        aes_encrypt(pkcs7_padding(Chunk(data, i)), expanded_key))

\* aes.py:110-117: k is what key_expansion returned
EcbEncryptWithKey(data, k) ==
    IF ~k.ok THEN k ELSE EcbEncryptLoop(data, k.val, 0, << >>)

\* aes.py:100
aes_ecb_encrypt(data, key) == EcbEncryptWithKey(data, key_expansion(key))

RECURSIVE EcbDecryptLoop(_, _, _, _)
\* aes.py:135: encrypted_data += d, d the decrypted block
EcbDecryptStep(data, expanded_key, i, encrypted_data, d) ==
    IF ~d.ok THEN d
    ELSE EcbDecryptLoop(data, expanded_key, i + 1, encrypted_data \o d.val)

\* aes.py:133-136: blocks i.. of aes_ecb_decrypt, then the cut to len(data)
EcbDecryptLoop(data, expanded_key, i, encrypted_data) ==
    IF i >= BlockCount(Len(data)) THEN Ok(PySlice(encrypted_data, 0, Len(data)))
    ELSE EcbDecryptStep(data, expanded_key, i, encrypted_data,
                        aes_decrypt(Chunk(data, i), expanded_key))

\* aes.py:130-136: k is what key_expansion returned
EcbDecryptWithKey(data, k) ==
    IF ~k.ok THEN k ELSE EcbDecryptLoop(data, k.val, 0, << >>)

\* aes.py:120
aes_ecb_decrypt(data, key) == EcbDecryptWithKey(data, key_expansion(key))

RECURSIVE CtrLoop(_, _, _, _, _)
\* aes.py:166-171: block is the zero-filled chunk, cipher_counter_block what
\* aes_encrypt returned for the counter block
CtrStep(data, expanded_key, counter_block, i, encrypted_data, block, cipher_counter_block) ==
    IF ~cipher_counter_block.ok THEN cipher_counter_block
    ELSE CtrLoop(data, expanded_key, inc(counter_block), i + 1,
                 encrypted_data \o xor(block, cipher_counter_block.val))

\* aes.py:165-172: blocks i.. of aes_ctr_encrypt; counter_block is next(counter)
CtrLoop(data, expanded_key, counter_block, i, encrypted_data) ==
    IF i >= BlockCount(Len(data)) THEN Ok(PySlice(encrypted_data, 0, Len(data)))
    ELSE CtrStep(data, expanded_key, counter_block, i, encrypted_data,
                 ZeroFill(Chunk(data, i)), aes_encrypt(counter_block, expanded_key))

\* aes.py:160-172: k is what key_expansion returned
CtrWithKey(data, k, iv) ==
    IF ~k.ok THEN k ELSE CtrLoop(data, k.val, iv, 0, << >>)

\* aes.py:151
aes_ctr_encrypt(data, key, iv) == CtrWithKey(data, key_expansion(key), iv)

\* aes_ctr_decrypt whose counter starts one block late
aes_ctr_decrypt_NextCounter(data, key, iv) == aes_ctr_encrypt(data, key, inc(iv))

\* aes.py:139
aes_ctr_decrypt(data, key, iv) == aes_ctr_encrypt(data, key, iv)

RECURSIVE CbcDecryptLoop(_, _, _, _, _)
\* aes.py:193-195: block is the zero-filled chunk, decrypted_block what
\* aes_decrypt returned for it
CbcDecryptStep(data, expanded_key, previous_cipher_block, i, decrypted_data, block, decrypted_block) ==
    IF ~decrypted_block.ok THEN decrypted_block
    ELSE CbcDecryptLoop(data, expanded_key, block, i + 1,
                        decrypted_data \o xor(decrypted_block.val, previous_cipher_block))

\* aes.py:189-192: block i of aes_cbc_decrypt, zero-filled
CbcDecryptBlock(data, expanded_key, previous_cipher_block, i, decrypted_data, block) ==
    CbcDecryptStep(data, expanded_key, previous_cipher_block, i, decrypted_data, block,
                   aes_decrypt(block, expanded_key))

\* aes.py:189-196: blocks i.. of aes_cbc_decrypt
CbcDecryptLoop(data, expanded_key, previous_cipher_block, i, decrypted_data) ==
    IF i >= BlockCount(Len(data)) THEN Ok(PySlice(decrypted_data, 0, Len(data)))
    ELSE CbcDecryptBlock(data, expanded_key, previous_cipher_block, i, decrypted_data,
                         ZeroFill(Chunk(data, i)))

\* aes.py:185-196: k is what key_expansion returned
CbcDecryptWithKey(data, k, iv) ==
    IF ~k.ok THEN k ELSE CbcDecryptLoop(data, k.val, iv, 0, << >>)

\* aes.py:175
aes_cbc_decrypt(data, key, iv) == CbcDecryptWithKey(data, key_expansion(key), iv)

RECURSIVE CbcEncryptLoop(_, _, _, _, _, _)
\* aes.py:222-223: encrypted_block is what aes_encrypt returned
CbcEncryptStep(data, expanded_key, padding_mode, i, encrypted_data, encrypted_block) ==
    IF ~encrypted_block.ok THEN encrypted_block
    ELSE CbcEncryptLoop(data, expanded_key, encrypted_block.val, padding_mode, i + 1,
                        encrypted_data \o encrypted_block.val)

\* aes.py:217-221: block is what pad_block returned
CbcEncryptBlock(data, expanded_key, previous_cipher_block, padding_mode, i, encrypted_data, block) ==
    IF ~block.ok THEN block
    ELSE CbcEncryptStep(data, expanded_key, padding_mode, i, encrypted_data,
                        aes_encrypt(xor(block.val, previous_cipher_block), expanded_key))

\* aes.py:214-225: blocks i.. of aes_cbc_encrypt
CbcEncryptLoop(data, expanded_key, previous_cipher_block, padding_mode, i, encrypted_data) ==
    IF i >= BlockCount(Len(data)) THEN Ok(encrypted_data)
    ELSE CbcEncryptBlock(data, expanded_key, previous_cipher_block, padding_mode, i,
                         encrypted_data, pad_block(Chunk(data, i), padding_mode))

\* aes.py:209-225: k is what key_expansion returned
CbcEncryptWithKey(data, k, iv, padding_mode) ==
    IF ~k.ok THEN k ELSE CbcEncryptLoop(data, k.val, iv, padding_mode, 0, << >>)

\* aes.py:199
aes_cbc_encrypt(data, key, iv, padding_mode) ==
    CbcEncryptWithKey(data, key_expansion(key), iv, padding_mode)

(***************************************************************************)
(* GHASH / GCM                                                             *)
(***************************************************************************)
\* every byte is halved on its own: no bit moves to the next byte
shift_block_NoCarry(data) == List([i \in 1..Len(data) |-> data[i] \div 2])

\* aes.py:496  byte i takes the low bit of byte i - 1 as its high bit
\* (n |= 0x100 adds 256 to a byte), then n >>= 1; the first byte takes 0.
shift_block(data) ==
    List([i \in 1..Len(data) |->
        (data[i] + (IF i > 1 THEN 256 * (data[i - 1] % 2) ELSE 0)) \div 2])

\* aes.py:527
BLOCK_R == <<225>> \o Repeat(0, BLOCK_SIZE_BYTES - 1)

\* aes.py:532-539: the bits from bit down to 0 of the byte i of block_x;
\* zv is <<block_z, block_v>>
RECURSIVE ProductBits(_, _, _)
ProductBits(i, zv, bit) ==
    IF bit < 0 THEN zv
    ELSE LET block_z == IF Bit(i, bit) = 1 THEN xor(zv[1], zv[2]) ELSE zv[1]
             shifted == shift_block(zv[2])
         IN  IF zv[2][Len(zv[2])] % 2 = 1
             THEN ProductBits(i, << block_z, xor(shifted, BLOCK_R) >>, bit - 1)
             ELSE ProductBits(i, << block_z, shifted >>, bit - 1)

\* aes.py:531: the bytes of block_x from Python index n; each byte's bits are
\* done before the next byte is taken
RECURSIVE ProductLoop(_, _, _)
ProductLoop(block_x, zv, n) ==
    IF n >= Len(block_x) THEN zv[1]
    ELSE LET after == ProductBits(block_x[n + 1], zv, 7)
         IN  CASE Computed(after) -> ProductLoop(block_x, after, n + 1)

\* the operands are multiplied whatever their lengths
block_product_NoLengthCheck(block_x, block_y) ==
    Ok(ProductLoop(block_x, << Repeat(0, BLOCK_SIZE_BYTES), block_y >>, 0))

\* aes.py:521
block_product(block_x, block_y) ==
    IF Len(block_x) # BLOCK_SIZE_BYTES \/ Len(block_y) # BLOCK_SIZE_BYTES
    THEN Raise("ValueError", "Length of blocks need to be 16 bytes")
    ELSE Ok(ProductLoop(block_x, << Repeat(0, BLOCK_SIZE_BYTES), block_y >>, 0))

RECURSIVE GhashLoop(_, _, _, _)
\* aes.py:554: last_y = block_product(...); y is what block_product returned
GhashStep(subkey, data, i, y) ==
    IF ~y.ok THEN y ELSE GhashLoop(subkey, data, i + BLOCK_SIZE_BYTES, y.val)

\* aes.py:551-555: the blocks of data from Python offset i
GhashLoop(subkey, data, i, last_y) ==
    IF i >= Len(data) THEN Ok(last_y)
    ELSE GhashStep(subkey, data, i,
                   block_product(xor(last_y, PySlice(data, i, i + BLOCK_SIZE_BYTES)),
                                 subkey))

\* last_y starts as the subkey
ghash_FromSubkey(subkey, data) ==
    IF Len(data) % BLOCK_SIZE_BYTES # 0
    THEN Raise("ValueError", "Length of data should be 16 bytes")
    ELSE GhashLoop(subkey, data, 0, subkey)

\* aes.py:544
ghash(subkey, data) ==
    IF Len(data) % BLOCK_SIZE_BYTES # 0
    THEN Raise("ValueError", "Length of data should be 16 bytes")
    ELSE GhashLoop(subkey, data, 0, Repeat(0, BLOCK_SIZE_BYTES))

\* the length block holds the byte count of the nonce, not its bit count
GcmJ0_ByteCount(hash_subkey, nonce) ==
    IF Len(nonce) = 12
    THEN Ok(nonce \o <<0, 0, 0, 1>>)
    ELSE ghash(hash_subkey,
               nonce \o Repeat(0, ((BLOCK_SIZE_BYTES - (Len(nonce) % BLOCK_SIZE_BYTES))
                                      % BLOCK_SIZE_BYTES) + 8)
                     \o to_bytes(Len(nonce), 8))

\* aes.py:246-247  ghash_in, for a nonce that is not 12 bytes long
GcmJ0In(nonce) ==
    LET fill == ((BLOCK_SIZE_BYTES - (Len(nonce) % BLOCK_SIZE_BYTES))
                     % BLOCK_SIZE_BYTES) + 8
    IN  nonce \o Repeat(0, fill) \o to_bytes(8 * Len(nonce), 8)

\* aes.py:243-248  the initial counter block
GcmJ0(hash_subkey, nonce) ==
    IF Len(nonce) = 12
    THEN Ok(nonce \o <<0, 0, 0, 1>>)
    ELSE ghash(hash_subkey, GcmJ0In(nonce))

\* the ciphertext goes in as it is, with no zero bytes after it
GcmSIn_NoPad(data) == data \o to_bytes(0 * 8, 8) \o to_bytes(Len(data) * 8, 8)

\* aes.py:254-262  the argument of the second ghash: the ciphertext, the zero
\* bytes up to a block, the length of the associated data, the length of data
GcmSIn(data) ==
    LET pad_len == (BLOCK_SIZE_BYTES - (Len(data) % BLOCK_SIZE_BYTES)) % BLOCK_SIZE_BYTES
    IN  data \o Repeat(0, pad_len) \o to_bytes(0 * 8, 8) \o to_bytes(Len(data) * 8, 8)

\* GcmSTag hashing the two lengths only
GcmSTag_LengthsOnly(hash_subkey, data) ==
    ghash(hash_subkey, to_bytes(0 * 8, 8) \o to_bytes(Len(data) * 8, 8))

\* aes.py:256-263  the GHASH of the ciphertext and the two lengths
GcmSTag(hash_subkey, data) == ghash(hash_subkey, GcmSIn(data))

\* the tag mismatch raised as an error kind of its own
MismatchError_OwnKind ==
    [kind |-> "AuthenticationError", msg |-> "Mismatching authentication tag"]

\* aes.py:266
MismatchError == [kind |-> "ValueError", msg |-> "Mismatching authentication tag"]

\* GcmDecrypt starting the data counters at j0 itself
GcmDecrypt_FromJ0(data, key, j0) ==
    aes_ctr_decrypt(data, key, j0 \o Repeat(0, BLOCK_SIZE_BYTES - Len(j0)))

\* aes.py:253-255  the data is decrypted under the counter after j0
GcmDecrypt(data, key, j0) ==
    LET iv_ctr == inc(j0)
    IN  aes_ctr_decrypt(data, key, iv_ctr \o Repeat(0, BLOCK_SIZE_BYTES - Len(iv_ctr)))

\* aes.py:265-268  the tag comparison and the return
GcmCompare(tag, expected, decrypted_data) ==
    IF ~expected.ok THEN expected
    ELSE IF tag # expected.val
    THEN [ok |-> FALSE, val |-> << >>, err |-> MismatchError]
    ELSE decrypted_data

\* aes.py:256-265  the tag expected for data
GcmCheckTag(data, key, tag, hash_subkey, j0, decrypted_data, s_tag) ==
    IF ~s_tag.ok THEN s_tag
    ELSE GcmCompare(tag, aes_ctr_encrypt(s_tag.val, key, j0), decrypted_data)

\* aes.py:253-263  the decryption, then the GHASH of the ciphertext
GcmHashData(data, key, tag, hash_subkey, j0, decrypted_data) ==
    IF ~decrypted_data.ok THEN decrypted_data
    ELSE GcmCheckTag(data, key, tag, hash_subkey, j0, decrypted_data,
                     GcmSTag(hash_subkey, data))

\* aes.py:243-255  the counter block j0, then the decryption under inc(j0)
GcmWithJ0(data, key, tag, hash_subkey, j0) ==
    IF ~j0.ok THEN j0
    ELSE GcmHashData(data, key, tag, hash_subkey, j0.val, GcmDecrypt(data, key, j0.val))

\* aes.py:241-248  the hash subkey, then j0 from the nonce
GcmWithSubkey(data, key, tag, nonce, hash_subkey) ==
    IF ~hash_subkey.ok THEN hash_subkey
    ELSE GcmWithJ0(data, key, tag, hash_subkey.val, GcmJ0(hash_subkey.val, nonce))

\* aes.py:228
aes_gcm_decrypt_and_verify(data, key, tag, nonce) ==
    LET k == key_expansion(key)
    IN  IF ~k.ok THEN k
        ELSE GcmWithSubkey(data, key, tag, nonce,
                           aes_encrypt(Repeat(0, BLOCK_SIZE_BYTES), k.val))

(***************************************************************************)
(* aes_decrypt_text, from line 329 on: data is the int list of the         *)
(* base64-decoded text and password the int list of the utf-8 encoded      *)
(* password (lines 326-327); the value is the int list of the bytes        *)
(* returned                                                                *)
(***************************************************************************)
\* aes.py:324
NONCE_LENGTH_BYTES == 8

\* list * n  (empty for n <= 0)
ListTimes(list, n) ==
    List([i \in 1..(Len(list) * n) |-> list[((i - 1) % Len(list)) + 1]])

\* aes.py:329  the password cut or zero-filled to key_size_bytes
TextKeyMaterial(password_list, size) ==
    PySlice(password_list, 0, size) \o Repeat(0, size - Len(password_list))

\* aes.py:330  encrypted is what aes_encrypt returned
TextKeyTile(encrypted, size) ==
    IF ~encrypted.ok THEN encrypted
    ELSE Ok(ListTimes(encrypted.val, size \div BLOCK_SIZE_BYTES))

\* aes.py:330  k is what key_expansion returned for the material
TextKeyEncrypt(material, k, size) ==
    IF ~k.ok THEN k
    ELSE TextKeyTile(aes_encrypt(PySlice(material, 0, BLOCK_SIZE_BYTES), k.val), size)

\* aes.py:330  the key of the CTR decryption, from the material of line 329
TextKeyOfMaterial(material, size) ==
    TextKeyEncrypt(material, key_expansion(material), size)

\* aes.py:329-330
TextKey(password_list, size) ==
    TextKeyOfMaterial(TextKeyMaterial(password_list, size), size)

\* aes.py:332-336  k is the derived key
TextDecryptWithKey(data, k) ==
    IF ~k.ok THEN k
    ELSE aes_ctr_decrypt(PySliceFrom(data, NONCE_LENGTH_BYTES), k.val,
                         PySlice(data, 0, NONCE_LENGTH_BYTES)
                             \o Repeat(0, BLOCK_SIZE_BYTES - NONCE_LENGTH_BYTES))

\* aes.py:311
aes_decrypt_text(data, password_list, size) ==
    TextDecryptWithKey(data, TextKey(password_list, size))

(***************************************************************************)
(* The caller                                                              *)
(*                                                                         *)
(* key, data, iv, tag, mode are the argument buffers the caller holds      *)
(* (iv is the IV, the initial counter or the GCM nonce); sched is the      *)
(* expanded key it keeps between block calls; orig is the buffer it        *)
(* started from; call names the last operation invoked and ret is what     *)
(* that call returned or raised; flipped tells which argument the caller   *)
(* corrupted before its last GCM call.  password and key_size_bytes are    *)
(* the arguments of aes_decrypt_text; key then is the key it derives.      *)
(***************************************************************************)
VARIABLES key, data, iv, tag, mode, sched, orig, call, ret, flipped,
          password, key_size_bytes,
          prog, pc, heap, loc, out,
          at, twitch_live, youtube_live, twitch_video_thread, twitch_chat_thread,
          youtube_video_thread, youtube_chat_thread

\* what only concurrent invocations use: per invocation its operation (prog),
\* its position (pc), its frame of local names (loc) and what it returned (out),
\* and the list objects they all can reach (heap)
conc == << prog, pc, heap, loc, out >>

\* what only livesaver.main uses: where main is (at), the two poll results and
\* the four thread names of livesaver.py:210-213
saver == << at, twitch_live, youtube_live, twitch_video_thread, twitch_chat_thread,
            youtube_video_thread, youtube_chat_thread >>

\* what only the caller of aes_decrypt_text, concurrent invocations and
\* livesaver.main hold
others == << password, key_size_bytes, conc, saver >>

vars == << key, data, iv, tag, mode, sched, orig, call, ret, flipped, others >>

\* no concurrent invocations
ConcIdle ==
    /\ prog = << >>
    /\ pc = << >>
    /\ heap = << >>
    /\ loc = << >>
    /\ out = << >>

\* a caller that never calls aes_decrypt_text
TextIdle ==
    /\ password = << >>
    /\ key_size_bytes = 0

\* livesaver.py:210-213  a name that holds no thread
None == [kind |-> "None", alive |-> FALSE]

\* livesaver.main is not running
SaverIdle ==
    /\ at = "none"
    /\ twitch_live = FALSE
    /\ youtube_live = FALSE
    /\ twitch_video_thread = None
    /\ twitch_chat_thread = None
    /\ youtube_video_thread = None
    /\ youtube_chat_thread = None

\* a single caller that never calls aes_decrypt_text, and no livesaver.main
OthersIdle == TextIdle /\ ConcIdle /\ SaverIdle

\* n bytes of pattern number seed
Bytes(n, seed) == List([i \in 1..n |-> (seed * 101 + i * (2 * seed + 37)) % 256])

\* the key lengths the docstrings allow (aes.py:105, 418)
KEY_LENGTHS == {16, 24, 32}

(***************************************************************************)
(* Single block: key_expansion, then aes_encrypt, then aes_decrypt         *)
(***************************************************************************)
NumKeySeeds == 2

NumBlockSeeds == 4

\* FIPS-197 appendix C.1
FipsKey == List([i \in 1..16 |-> i - 1])

FipsPlain == List([i \in 1..16 |-> 17 * (i - 1)])

FipsCipher == <<105, 196, 224, 216, 106, 123, 4, 48, 216, 205, 183, 128, 112, 180, 197, 90>>

BlockKeys == {Bytes(n, seed) : n \in KEY_LENGTHS, seed \in 1..NumKeySeeds} \cup {FipsKey}

Blocks ==
    {Bytes(BLOCK_SIZE_BYTES, seed) : seed \in 1..NumBlockSeeds}
        \cup {FipsPlain, Repeat(0, BLOCK_SIZE_BYTES)}

InitBlock ==
    /\ key \in BlockKeys
    /\ data \in Blocks
    /\ orig = data
    /\ iv = << >>
    /\ tag = << >>
    /\ mode = "pkcs7"
    /\ sched = << >>
    /\ call = "none"
    /\ ret = Ok(<< >>)
    /\ flipped = "none"
    /\ OthersIdle

\* the caller expands its key and keeps the schedule
CallKeyExpansion ==
    /\ call = "none"
    /\ LET r == key_expansion(key)
       IN  /\ ret' = r
           /\ sched' = r.val
    /\ call' = "key_expansion"
    /\ UNCHANGED << key, data, iv, tag, mode, orig, flipped, others >>

\* the caller encrypts its block under the schedule and keeps the cipher block
CallAesEncrypt ==
    /\ call = "key_expansion"
    /\ ret.ok
    /\ LET r == aes_encrypt(data, sched)
       IN  /\ ret' = r
           /\ data' = r.val
    /\ call' = "aes_encrypt"
    /\ UNCHANGED << key, iv, tag, mode, sched, orig, flipped, others >>

\* the caller decrypts the cipher block under the same schedule
CallAesDecrypt ==
    /\ call = "aes_encrypt"
    /\ ret.ok
    /\ LET r == aes_decrypt(data, sched)
       IN  /\ ret' = r
           /\ data' = r.val
    /\ call' = "aes_decrypt"
    /\ UNCHANGED << key, iv, tag, mode, sched, orig, flipped, others >>

NextBlock == CallKeyExpansion \/ CallAesEncrypt \/ CallAesDecrypt

SpecBlock == InitBlock /\ [][NextBlock]_vars

\* C1: for every key of length 16, 24 or 32 and every 16-byte block B, decrypting
\* the encryption of B under the key's schedule gives back B.
C1_BlockRoundTrip ==
    call = "aes_decrypt" => ret.ok /\ ret.val = orig

C1_Witness ==
    /\ call = "aes_decrypt"
    /\ Len(key) = 32
    /\ Len(orig) = BLOCK_SIZE_BYTES
    /\ ret.val = orig
    /\ orig # Repeat(0, BLOCK_SIZE_BYTES)

\* C9: for a key of length L in {16, 24, 32}, key_expansion returns exactly
\* (L/4 + 7) * 16 bytes (176, 208, 240) whose first L bytes are the key.
C9_ScheduleLength ==
    (call = "key_expansion" /\ Len(key) \in KEY_LENGTHS) =>
        /\ ret.ok
        /\ Len(ret.val) = (Len(key) \div 4 + 7) * 16
        /\ Len(ret.val) = (CASE Len(key) = 16 -> 176 [] Len(key) = 24 -> 208
                             [] Len(key) = 32 -> 240)
        /\ SubSeq(ret.val, 1, Len(key)) = key

C9_Witness ==
    /\ call = "key_expansion"
    /\ Len(key) = 24
    /\ Len(ret.val) = 208

\* C10: aes_encrypt of 00112233445566778899aabbccddeeff under the schedule of
\* 000102030405060708090a0b0c0d0e0f is 69c4e0d86a7b0430d8cdb78070b4c55a.
C10_KnownAnswer ==
    (call = "aes_encrypt" /\ key = FipsKey /\ orig = FipsPlain) =>
        ret.ok /\ ret.val = FipsCipher

C10_Witness ==
    /\ call = "aes_encrypt"
    /\ key = FipsKey
    /\ orig = FipsPlain
    /\ ret.val = FipsCipher

(***************************************************************************)
(* Chaining modes: the caller encrypts a message, decrypts what it got     *)
(* and, after CBC, strips the padding                                      *)
(***************************************************************************)
MaxMsgLen == 33

NumIvSeeds == 1

ModeKeys == {Bytes(n, 3) : n \in KEY_LENGTHS}

Messages == {Bytes(n, n + 1) : n \in 0..MaxMsgLen}

Ivs == {Bytes(BLOCK_SIZE_BYTES, 200 + seed) : seed \in 1..NumIvSeeds}

Init ==
    /\ key \in ModeKeys
    /\ data \in Messages
    /\ orig = data
    /\ iv \in Ivs
    /\ tag = << >>
    /\ mode = "pkcs7"
    /\ sched = << >>
    /\ call = "none"
    /\ ret = Ok(<< >>)
    /\ flipped = "none"
    /\ OthersIdle

\* one call whose result the caller keeps as its next input
Invoke(name, r) ==
    /\ ret' = r
    /\ data' = r.val
    /\ call' = name

CallEcbEncrypt ==
    /\ call = "none"
    /\ Invoke("aes_ecb_encrypt", aes_ecb_encrypt(data, key))
    /\ UNCHANGED << key, iv, tag, mode, sched, orig, flipped, others >>

CallEcbDecrypt ==
    /\ call = "aes_ecb_encrypt"
    /\ ret.ok
    /\ Invoke("aes_ecb_decrypt", aes_ecb_decrypt(data, key))
    /\ UNCHANGED << key, iv, tag, mode, sched, orig, flipped, others >>

CallCbcEncrypt ==
    /\ call = "none"
    /\ \E m \in PADDING_MODES :
          /\ mode' = m
          /\ Invoke("aes_cbc_encrypt", aes_cbc_encrypt(data, key, iv, m))
    /\ UNCHANGED << key, iv, tag, sched, orig, flipped, others >>

CallCbcDecrypt ==
    /\ call = "aes_cbc_encrypt"
    /\ ret.ok
    /\ Invoke("aes_cbc_decrypt", aes_cbc_decrypt(data, key, iv))
    /\ UNCHANGED << key, iv, tag, mode, sched, orig, flipped, others >>

CallUnpadPkcs7 ==
    /\ call = "aes_cbc_decrypt"
    /\ ret.ok
    /\ mode = "pkcs7"
    /\ Invoke("unpad_pkcs7", unpad_pkcs7(data))
    /\ UNCHANGED << key, iv, tag, mode, sched, orig, flipped, others >>

CallCtrEncrypt ==
    /\ call = "none"
    /\ Invoke("aes_ctr_encrypt", aes_ctr_encrypt(data, key, iv))
    /\ UNCHANGED << key, iv, tag, mode, sched, orig, flipped, others >>

CallCtrDecrypt ==
    /\ call = "aes_ctr_encrypt"
    /\ ret.ok
    /\ Invoke("aes_ctr_decrypt", aes_ctr_decrypt(data, key, iv))
    /\ UNCHANGED << key, iv, tag, mode, sched, orig, flipped, others >>

Next ==
    \/ CallEcbEncrypt
    \/ CallEcbDecrypt
    \/ CallCbcEncrypt
    \/ CallCbcDecrypt
    \/ CallUnpadPkcs7
    \/ CallCtrEncrypt
    \/ CallCtrDecrypt

Spec == Init /\ [][Next]_vars

\* C6: for every message M of any length (multiples of 16 included), every valid
\* key and 16-byte IV, with pkcs7 padding,
\* unpad_pkcs7(aes_cbc_decrypt(aes_cbc_encrypt(M, key, iv), key, iv)) = M.
C6_CbcRoundTrip ==
    (call = "unpad_pkcs7" /\ mode = "pkcs7") => ret.ok /\ ret.val = orig

\* C7: for every message M (length 0 and lengths not a multiple of 16 included),
\* aes_ctr_decrypt(aes_ctr_encrypt(M, key, iv), key, iv) = M, and the output of
\* aes_ctr_encrypt has exactly len(M) bytes.
C7_CtrRoundTrip ==
    /\ call = "aes_ctr_encrypt" => ret.ok /\ Len(ret.val) = Len(orig)
    /\ call = "aes_ctr_decrypt" => ret.ok /\ ret.val = orig

C7_Witness ==
    /\ call = "aes_ctr_decrypt"
    /\ Len(orig) = BLOCK_SIZE_BYTES + 1
    /\ ret.val = orig

\* the concatenation of pkcs7_padding(B_i) over the 16-byte chunks B_i of a message
RECURSIVE PaddedChunks(_, _)
PaddedChunks(m, i) ==
    IF i >= BlockCount(Len(m)) THEN << >>
    ELSE pkcs7_padding(Chunk(m, i)) \o PaddedChunks(m, i + 1)

\* C8: for every message M and valid key, aes_ecb_decrypt(aes_ecb_encrypt(M, key), key)
\* is the concatenation of pkcs7_padding(B_i) over the successive 16-byte chunks
\* B_i of M, a full 16-byte chunk included.
C8_EcbPaddedChunks ==
    call = "aes_ecb_decrypt" => ret.ok /\ ret.val = PaddedChunks(orig, 0)

(***************************************************************************)
(* GCM: the caller verifies a message, then corrupts one bit of the        *)
(* ciphertext or of the tag of a message that was accepted and verifies    *)
(* again.  iv holds the nonce.                                             *)
(***************************************************************************)
\* the tag the sender of (data, nonce) attaches under key: the value line 265
\* compares with (zeros when the key cannot be expanded)
GcmSenderTagWithJ0(d, k, h, j0) == aes_ctr_encrypt(GcmSTag(h, d).val, k, j0).val

GcmSenderTagWithSubkey(d, k, nonce, h) == GcmSenderTagWithJ0(d, k, h, GcmJ0(h, nonce).val)

GcmSenderTagWithKey(d, k, nonce, e) ==
    IF ~e.ok THEN Repeat(0, BLOCK_SIZE_BYTES)
    ELSE GcmSenderTagWithSubkey(d, k, nonce,
                                aes_encrypt(Repeat(0, BLOCK_SIZE_BYTES), e.val).val)

GcmSenderTag(d, k, nonce) == GcmSenderTagWithKey(d, k, nonce, key_expansion(k))

\* s with bit b (0..7) of its byte at Python index i inverted
FlipBit(s, i, b) ==
    [s EXCEPT ![i + 1] = IF Bit(s[i + 1], b) = 1 THEN s[i + 1] - 2 ^ b ELSE s[i + 1] + 2 ^ b]

MaxGcmLen == 17

GcmKeys == {Bytes(16, 7)}

GcmNonces == {Bytes(12, 11), Bytes(8, 12)}

GcmData == {Bytes(n, n + 20) : n \in {0, MaxGcmLen}}

InitGcm ==
    /\ key \in GcmKeys
    /\ data \in GcmData
    /\ orig = data
    /\ iv \in GcmNonces
    /\ tag \in {GcmSenderTag(data, key, iv),
                SubSeq(GcmSenderTag(data, key, iv), 1, 12),
                Bytes(BLOCK_SIZE_BYTES, 9)}
    /\ mode = "pkcs7"
    /\ sched = << >>
    /\ call = "none"
    /\ ret = Ok(<< >>)
    /\ flipped = "none"
    /\ OthersIdle

CallGcm ==
    /\ call = "none"
    /\ ret' = aes_gcm_decrypt_and_verify(data, key, tag, iv)
    /\ call' = "aes_gcm_decrypt_and_verify"
    /\ UNCHANGED << key, data, iv, tag, mode, sched, orig, flipped, others >>

\* the message was accepted and has not been corrupted yet
Accepted ==
    /\ call = "aes_gcm_decrypt_and_verify"
    /\ ret.ok
    /\ flipped = "none"

FlipDataAndCallGcm ==
    /\ Accepted
    /\ \E i \in 0..(Len(data) - 1), b \in 0..7 :
          /\ data' = FlipBit(data, i, b)
          /\ ret' = aes_gcm_decrypt_and_verify(data', key, tag, iv)
    /\ flipped' = "data"
    /\ UNCHANGED << key, iv, tag, mode, sched, orig, call, others >>

FlipTagAndCallGcm ==
    /\ Accepted
    /\ \E i \in 0..(Len(tag) - 1), b \in 0..7 :
          /\ tag' = FlipBit(tag, i, b)
          /\ ret' = aes_gcm_decrypt_and_verify(data, key, tag', iv)
    /\ flipped' = "tag"
    /\ UNCHANGED << key, data, iv, mode, sched, orig, call, others >>

NextGcm == CallGcm \/ FlipDataAndCallGcm \/ FlipTagAndCallGcm

SpecGcm == InitGcm /\ [][NextGcm]_vars

\* C2: after a single bit of the ciphertext or of the tag of an accepted
\* (ciphertext, key, tag, nonce) is flipped the call raises instead of returning,
\* and a call whose tag does not match returns no plaintext.
C2_FlipRejected ==
    /\ flipped # "none" => ~ret.ok /\ ret.val = << >> /\ ret.err = MismatchError
    /\ (call = "aes_gcm_decrypt_and_verify" /\ tag # GcmSenderTag(data, key, iv)) =>
           ~ret.ok /\ ret.val = << >>

C2_Witness ==
    /\ flipped = "data"
    /\ Len(data) = MaxGcmLen
    /\ data[MaxGcmLen] # orig[MaxGcmLen]
    /\ ~ret.ok

\* the S and H of claim C3, written out
C3_H(k) == aes_encrypt(Repeat(0, 16), key_expansion(k).val).val

C3_S(d, k) ==
    ghash(C3_H(k),
          d \o Repeat(0, (16 - (Len(d) % 16)) % 16)
            \o Repeat(0, 8)
            \o to_bytes(8 * Len(d), 8)).val

C3_J0(k, nonce) == GcmJ0(C3_H(k), nonce).val

\* C3: aes_gcm_decrypt_and_verify(data, key, tag, nonce) returns normally exactly
\* when tag = aes_ctr_encrypt(S, key, J0), and then returns
\* aes_ctr_decrypt(data, key, inc(J0)).
C3_TagAndPlaintext ==
    call = "aes_gcm_decrypt_and_verify" =>
        /\ ret.ok <=> (tag = aes_ctr_encrypt(C3_S(data, key), key, C3_J0(key, iv)).val)
        /\ ret.ok => ret.val = aes_ctr_decrypt(data, key, inc(C3_J0(key, iv))).val

C3_Witness ==
    /\ call = "aes_gcm_decrypt_and_verify"
    /\ flipped = "none"
    /\ ret.ok
    /\ Len(data) = MaxGcmLen
    /\ Len(ret.val) = MaxGcmLen
    /\ Len(iv) # 12

\* the nonce filled with zero bytes up to a multiple of the block size
C16_Padded(nonce) ==
    nonce \o Repeat(0, (BLOCK_SIZE_BYTES - (Len(nonce) % BLOCK_SIZE_BYTES)) % BLOCK_SIZE_BYTES)

\* J0 with eight zero bytes between the padded nonce and the length block
C16_J0(hash_subkey, nonce) ==
    IF Len(nonce) = 12
    THEN Ok(nonce \o <<0, 0, 0, 1>>)
    ELSE ghash(hash_subkey,
               C16_Padded(nonce) \o Repeat(0, 8) \o to_bytes(8 * Len(nonce), 8))

\* C16 (as stated): aes_gcm_decrypt_and_verify goes on from the initial counter
\* J0 = nonce ++ [0,0,0,1] for a 12-byte nonce, and otherwise from
\* J0 = GHASH(H, nonce zero-padded to a multiple of 16 ++ the 8-byte big-endian
\* encoding of 8*len(nonce)), with nothing else in the GHASH input.
C16_StatedInitialCounter ==
    call = "aes_gcm_decrypt_and_verify" =>
        LET j0 == IF Len(iv) = 12
                  THEN Ok(iv \o <<0, 0, 0, 1>>)
                  ELSE ghash(C3_H(key), C16_Padded(iv) \o to_bytes(8 * Len(iv), 8))
        IN  ret = GcmWithJ0(data, key, tag, C3_H(key), j0)

\* C16 (amended): aes_gcm_decrypt_and_verify goes on from the initial counter
\* J0 = nonce ++ [0,0,0,1] for a 12-byte nonce, and otherwise from
\* J0 = GHASH(H, nonce zero-padded to a multiple of 16 ++ 8 zero bytes ++ the
\* 8-byte big-endian encoding of 8*len(nonce)).
C16_InitialCounter ==
    call = "aes_gcm_decrypt_and_verify" =>
        ret = GcmWithJ0(data, key, tag, C3_H(key), C16_J0(C3_H(key), iv))

\* a message with an 8-byte nonce was accepted and decrypted
C16_Witness ==
    /\ call = "aes_gcm_decrypt_and_verify"
    /\ Len(iv) = 8
    /\ flipped = "none"
    /\ ret.ok
    /\ Len(ret.val) = MaxGcmLen
    /\ C16_J0(C3_H(key), iv).ok
    /\ Len(C16_J0(C3_H(key), iv).val) = BLOCK_SIZE_BYTES

(***************************************************************************)
(* Keys of every length: the caller hands a key of 0..MaxKeyLen bytes to   *)
(* key_expansion and to each mode that expands it                          *)
(***************************************************************************)
MaxKeyLen == 33

AnyKeys == {Bytes(n, 5) : n \in 0..MaxKeyLen}

KeyedMessages == {Bytes(3, 21), Bytes(BLOCK_SIZE_BYTES + 1, 22)}

\* the operations that take a key (aes.py:100-268, 414)
KEYED_CALLS ==
    {"key_expansion", "aes_ecb_encrypt", "aes_ecb_decrypt", "aes_cbc_encrypt",
     "aes_cbc_decrypt", "aes_ctr_encrypt", "aes_ctr_decrypt",
     "aes_gcm_decrypt_and_verify"}

InitKeys ==
    /\ key \in AnyKeys
    /\ data \in KeyedMessages
    /\ orig = data
    /\ iv = Bytes(BLOCK_SIZE_BYTES, 13)
    /\ tag = GcmSenderTag(data, key, iv)
    /\ mode = "pkcs7"
    /\ sched = << >>
    /\ call = "none"
    /\ ret = Ok(<< >>)
    /\ flipped = "none"
    /\ OthersIdle

NextKeys ==
    \/ CallKeyExpansion
    \/ CallEcbEncrypt
    \/ CallEcbDecrypt
    \/ CallCbcEncrypt
    \/ CallCbcDecrypt
    \/ CallCtrEncrypt
    \/ CallCtrDecrypt
    \/ CallGcm

SpecKeys == InitKeys /\ [][NextKeys]_vars

\* C5: for every key whose length is not 16, 24 or 32, key_expansion and every
\* mode operation that calls it raise, and never return a schedule or an output.
C5_BadKeyRaises ==
    (call \in KEYED_CALLS /\ Len(key) \notin KEY_LENGTHS) => ~ret.ok

(***************************************************************************)
(* Failures: the caller hands a buffer of 0..MaxErrLen bytes to pad_block, *)
(* ghash and block_product, and a message with a right or a wrong tag to   *)
(* aes_gcm_decrypt_and_verify                                              *)
(***************************************************************************)
MaxErrLen == 18

ErrBuffers == {Bytes(n, n + 40) : n \in 0..MaxErrLen}

\* the padding modes pad_block knows and one it does not
ErrModes == PADDING_MODES \cup {"bogus"}

\* a 12-byte nonce and a 16-byte one, which is also a block for block_product
ErrIvs == {Bytes(12, 11), Bytes(BLOCK_SIZE_BYTES, 13)}

InitErr ==
    /\ key = Bytes(BLOCK_SIZE_BYTES, 7)
    /\ data \in ErrBuffers
    /\ orig = data
    /\ iv \in ErrIvs
    /\ tag \in {GcmSenderTag(data, key, iv), Bytes(BLOCK_SIZE_BYTES, 9)}
    /\ mode \in ErrModes
    /\ sched = << >>
    /\ call = "none"
    /\ ret = Ok(<< >>)
    /\ flipped = "none"
    /\ OthersIdle

\* data is the list the caller passes, and what it holds when the call ends
CallPadBlock ==
    /\ call = "none"
    /\ ret' = pad_block(data, mode)
    /\ data' = PadBlockArg(data, mode)
    /\ call' = "pad_block"
    /\ UNCHANGED << key, iv, tag, mode, sched, orig, flipped, others >>

\* key is the hash subkey
CallGhash ==
    /\ call = "none"
    /\ ret' = ghash(key, data)
    /\ call' = "ghash"
    /\ UNCHANGED << key, data, iv, tag, mode, sched, orig, flipped, others >>

CallBlockProduct ==
    /\ call = "none"
    /\ ret' = block_product(data, iv)
    /\ call' = "block_product"
    /\ UNCHANGED << key, data, iv, tag, mode, sched, orig, flipped, others >>

NextErr == CallPadBlock \/ CallGhash \/ CallBlockProduct \/ CallGcm

SpecErr == InitErr /\ [][NextErr]_vars

\* the failures of the core other than the tag mismatch
OTHER_FAILURES == {"pad_block", "ghash", "block_product"}

C11_PadBlockRaises ==
    (call = "pad_block"
        /\ (Len(orig) > BLOCK_SIZE_BYTES
               \/ mode \notin {"pkcs7", "iso7816", "whitespace", "zero"})) =>
        /\ ~ret.ok
        /\ ret.val = << >>
        /\ ret.err.kind \in {"ValueError", "NotImplementedError"}
        /\ data = orig

C11_Witness ==
    /\ call = "pad_block"
    /\ Len(orig) = MaxErrLen
    /\ mode = "pkcs7"
    /\ ~ret.ok
    /\ data = orig

\* the byte the claim C12 puts at Python index i of a padded block of n bytes
C12_Fill(padding_mode, n, i) ==
    CASE padding_mode = "pkcs7"      -> 16 - n
      [] padding_mode = "iso7816"    -> IF i = n THEN 128 ELSE 0
      [] padding_mode = "whitespace" -> 32
      [] padding_mode = "zero"       -> 0

\* C12: for a block of n <= 16 bytes and a recognised mode, pad_block returns
\* exactly 16 bytes: the block, then 16 - n bytes that are 16 - n (pkcs7), 0x80
\* then zeros (iso7816), 0x20 (whitespace) or 0x00 (zero); a 16-byte block comes
\* back as it is, and the input list is not mutated.
C12_PadBlockBytes ==
    (call = "pad_block" /\ Len(orig) <= BLOCK_SIZE_BYTES /\ mode \in PADDING_MODES) =>
        /\ ret.ok
        /\ Len(ret.val) = 16
        /\ SubSeq(ret.val, 1, Len(orig)) = orig
        /\ \A i \in Len(orig)..15 : ret.val[i + 1] = C12_Fill(mode, Len(orig), i)
        /\ Len(orig) = 16 => ret.val = orig
        /\ data = orig

C12_Witness ==
    /\ call = "pad_block"
    /\ mode = "iso7816"
    /\ Len(orig) = 14
    /\ ret.ok
    /\ ret.val[15] = 128
    /\ ret.val[16] = 0
    /\ data = orig

(***************************************************************************)
(* Padding: the caller strips a buffer as it is, or pads it first and      *)
(* strips the padded buffer                                                *)
(***************************************************************************)
MaxPadLen == 20

\* values of the last byte: none, the PKCS#7 range, and more than any length
PadLastBytes == {0, 1, 2, 3, BLOCK_SIZE_BYTES, BLOCK_SIZE_BYTES + 1, 255}

PadBuffers ==
    {Append(Bytes(n, n + 60), last) : n \in 0..(MaxPadLen - 1), last \in PadLastBytes}
        \cup {<< >>}

InitPad ==
    /\ key = << >>
    /\ data \in PadBuffers
    /\ orig = data
    /\ iv = << >>
    /\ tag = << >>
    /\ mode = "pkcs7"
    /\ sched = << >>
    /\ call = "none"
    /\ ret = Ok(<< >>)
    /\ flipped = "none"
    /\ OthersIdle

\* the caller pads its buffer and keeps the padded buffer
CallPkcs7Padding ==
    /\ call = "none"
    /\ Invoke("pkcs7_padding", Ok(pkcs7_padding(data)))
    /\ UNCHANGED << key, iv, tag, mode, sched, orig, flipped, others >>

\* the caller strips the buffer it holds
CallUnpadBuffer ==
    /\ call \in {"none", "pkcs7_padding"}
    /\ ret' = unpad_pkcs7(data)
    /\ call' = IF call = "none" THEN "unpad_pkcs7" ELSE "unpad_pkcs7(pkcs7_padding)"
    /\ UNCHANGED << key, data, iv, tag, mode, sched, orig, flipped, others >>

NextPad == CallPkcs7Padding \/ CallUnpadBuffer

SpecPad == InitPad /\ [][NextPad]_vars

\* C13: for every non-empty buffer whose last byte is N (0..255) unpad_pkcs7
\* returns the buffer with exactly its last N bytes removed, whatever those bytes
\* are; so unpad_pkcs7(pkcs7_padding(D)) = D for every D.
C13_UnpadDropsLastN ==
    /\ (call = "unpad_pkcs7" /\ Len(data) > 0) =>
           /\ ret.ok
           /\ Len(ret.val) = Len(data) - data[Len(data)]
           /\ ret.val = SubSeq(data, 1, Len(data) - data[Len(data)])
    /\ call = "unpad_pkcs7(pkcs7_padding)" => ret.ok /\ ret.val = orig

(***************************************************************************)
(* Text: the caller decrypts a text under a password and a key size        *)
(***************************************************************************)
MaxPasswordLen == 34

TextPasswords == {Bytes(n, n + 80) : n \in 0..MaxPasswordLen}

\* the decoded text: an 8-byte nonce, then the cipher
TextData == {Bytes(n, n + 90) : n \in {NONCE_LENGTH_BYTES, 12, 25}}

InitText ==
    /\ key = << >>
    /\ data \in TextData
    /\ orig = data
    /\ iv = << >>
    /\ tag = << >>
    /\ mode = "pkcs7"
    /\ sched = << >>
    /\ call = "none"
    /\ ret = Ok(<< >>)
    /\ flipped = "none"
    /\ password \in TextPasswords
    /\ key_size_bytes \in KEY_LENGTHS
    /\ ConcIdle
    /\ SaverIdle

\* key becomes the key that line 335 hands to aes_ctr_decrypt
CallAesDecryptText ==
    /\ call = "none"
    /\ key' = TextKey(password, key_size_bytes).val
    /\ ret' = aes_decrypt_text(data, password, key_size_bytes)
    /\ call' = "aes_decrypt_text"
    /\ UNCHANGED << data, iv, tag, mode, sched, orig, flipped, others >>

NextText == CallAesDecryptText

SpecText == InitText /\ [][NextText]_vars

\* the first block of the zero-padded password material, AES-encrypted under it
C14_Block(password_list, size) ==
    aes_encrypt(SubSeq(password_list \o Repeat(0, size), 1, 16),
                key_expansion(SubSeq(password_list \o Repeat(0, size), 1, size)).val).val

\* C14: for key_size_bytes in {16, 24, 32} and any password the key handed to the
\* CTR decryption is that 16-byte block, tiled to exactly key_size_bytes bytes.
C14_TextKeyTiled ==
    (call = "aes_decrypt_text" /\ key_size_bytes \in {16, 24, 32}) =>
        /\ Len(key) = key_size_bytes
        /\ \A i \in 1..Len(key) :
               key[i] = C14_Block(password, key_size_bytes)[((i - 1) % 16) + 1]

(***************************************************************************)
(* GCM with nonces and ciphertexts of every length: the caller hands a     *)
(* nonce of 0..MaxNonceLen or 32 bytes and a ciphertext of 0, 1, 16 or     *)
(* MaxCipherLen bytes to aes_gcm_decrypt_and_verify, with the tag of the   *)
(* sender or another one                                                   *)
(***************************************************************************)
MaxNonceLen == 18

MaxCipherLen == 17

LenNonces == {Bytes(n, n + 90) : n \in (0..MaxNonceLen) \cup {2 * BLOCK_SIZE_BYTES}}

LenCiphers == {Bytes(n, n + 130) : n \in {0, 1, BLOCK_SIZE_BYTES, MaxCipherLen}}

InitGcmLen ==
    /\ key = Bytes(BLOCK_SIZE_BYTES, 8)
    /\ data \in LenCiphers
    /\ orig = data
    /\ iv \in LenNonces
    /\ tag \in {GcmSenderTag(data, key, iv), Bytes(BLOCK_SIZE_BYTES, 9)}
    /\ mode = "pkcs7"
    /\ sched = << >>
    /\ call = "none"
    /\ ret = Ok(<< >>)
    /\ flipped = "none"
    /\ OthersIdle

NextGcmLen == CallGcm

SpecGcmLen == InitGcmLen /\ [][NextGcmLen]_vars

\* C21: in aes_gcm_decrypt_and_verify the GHASH input that gives J0 (nonce not
\* 12 bytes long) and the GHASH input that gives S both have a length that is
\* a multiple of 16, for every nonce length (0 and multiples of 16 included)
\* and every ciphertext length (0 included); the call never fails with the
\* length error of ghash, it fails with the tag mismatch or not at all.
C21_GhashInputsAligned ==
    /\ Len(iv) # 12 => Len(GcmJ0In(iv)) % BLOCK_SIZE_BYTES = 0
    /\ Len(GcmSIn(data)) % BLOCK_SIZE_BYTES = 0
    /\ call = "aes_gcm_decrypt_and_verify" =>
          /\ GcmJ0(C3_H(key), iv).ok
          /\ GcmSTag(C3_H(key), data).ok
          /\ ret.ok \/ ret.err = MismatchError
          /\ ret.ok <=> tag = GcmSenderTag(data, key, iv)

\* a message with an empty nonce and a ciphertext of one byte was accepted
C21_Witness ==
    /\ call = "aes_gcm_decrypt_and_verify"
    /\ iv = << >>
    /\ Len(data) = 1
    /\ Len(GcmJ0In(iv)) = BLOCK_SIZE_BYTES
    /\ Len(GcmSIn(data)) = 2 * BLOCK_SIZE_BYTES
    /\ ret.ok
    /\ Len(ret.val) = 1

(***************************************************************************)
(* Counters: the caller hands a counter to inc, or to aes_ctr_encrypt as   *)
(* the iv of a message of three blocks                                     *)
(***************************************************************************)
MaxIncLen == 2

MaxIncMsgLen == 33

\* the byte values a short counter is made of
IncBytes == {0, 1, 254, 255}

ShortCounters == UNION {[1..n -> IncBytes] : n \in 0..MaxIncLen}

BlockCounters ==
    {Repeat(255, BLOCK_SIZE_BYTES),
     Repeat(0, BLOCK_SIZE_BYTES - 1) \o <<255>>,
     Repeat(0, BLOCK_SIZE_BYTES),
     Bytes(BLOCK_SIZE_BYTES - 2, 61) \o <<255, 255>>,
     Bytes(BLOCK_SIZE_BYTES - 3, 62) \o <<254, 255, 255>>,
     Bytes(BLOCK_SIZE_BYTES, 63)}

Counters == {List(c) : c \in ShortCounters} \cup BlockCounters

IncMessages == {Bytes(MaxIncMsgLen - BLOCK_SIZE_BYTES, 64), Bytes(MaxIncMsgLen, 65)}

InitInc ==
    /\ key = Bytes(16, 66)
    /\ data \in IncMessages
    /\ iv \in Counters
    /\ orig = iv
    /\ tag = << >>
    /\ mode = "pkcs7"
    /\ sched = << >>
    /\ call = "none"
    /\ ret = Ok(<< >>)
    /\ flipped = "none"
    /\ OthersIdle

\* aes.py:510
CallInc ==
    /\ call = "none"
    /\ ret' = Ok(inc(iv))
    /\ iv' = IncArg(iv)
    /\ call' = "inc"
    /\ UNCHANGED << key, data, tag, mode, sched, orig, flipped, others >>

\* aes.py:151  with a counter of one block
CallCtrWithCounter ==
    /\ call = "none"
    /\ Len(iv) = BLOCK_SIZE_BYTES
    /\ ret' = aes_ctr_encrypt(data, key, iv)
    /\ call' = "aes_ctr_encrypt"
    /\ UNCHANGED << key, data, iv, tag, mode, sched, orig, flipped, others >>

NextInc == CallInc \/ CallCtrWithCounter

SpecInc == InitInc /\ [][NextInc]_vars

\* the number a list of bytes is, most significant byte first
RECURSIVE BigEndian(_)
BigEndian(c) == IF c = << >> THEN 0 ELSE (256 * BigEndian(PySlice(c, 0, Len(c) - 1))) + c[Len(c)]

RECURSIVE Pow256(_)
Pow256(n) == IF n = 0 THEN 1 ELSE 256 * Pow256(n - 1)

\* how many bytes 0xFF the list ends with
RECURSIVE TrailingFF(_)
TrailingFF(c) == IF c = << >> \/ c[Len(c)] # 255 THEN 0 ELSE 1 + TrailingFF(PySlice(c, 0, Len(c) - 1))

\* the trailing 0xFF bytes are 0x00 and the byte before them is one more
Carried(c) ==
    IF TrailingFF(c) = Len(c) THEN Repeat(0, Len(c))
    ELSE PySlice(c, 0, Len(c) - TrailingFF(c) - 1)
             \o << c[Len(c) - TrailingFF(c)] + 1 >>
             \o Repeat(0, TrailingFF(c))

\* block i (from 0) of the message, encrypted under the counter block
C17_CtrBlock(i, counter_block) ==
    xor(Chunk(data, i), aes_encrypt(counter_block, key_expansion(key).val).val)

\* C17: inc(c) returns a new list as long as c that holds the big-endian value
\* (value(c) + 1) mod 2^(8*len(c)): trailing 0xFF bytes become 0x00 and the
\* carry stops at the first byte from the right that is not 0xFF, an all-0xFF
\* counter wraps to zeros; c is unchanged; aes_ctr_encrypt uses the counter
\* blocks iv, inc(iv), inc(inc(iv)) for blocks 0, 1, 2.
C17_IncCarries ==
    /\ call = "inc" =>
          /\ ret.ok
          /\ Len(ret.val) = Len(orig)
          /\ Len(orig) <= MaxIncLen =>
                BigEndian(ret.val) = (BigEndian(orig) + 1) % Pow256(Len(orig))
          /\ ret.val = Carried(orig)
          /\ \A i \in 1..Len(ret.val) : ret.val[i] \in 0..255
          /\ iv = orig
    /\ call = "aes_ctr_encrypt" =>
          /\ ret.ok
          /\ iv = orig
          /\ ret.val = C17_CtrBlock(0, orig)
                          \o (IF Len(data) > BLOCK_SIZE_BYTES
                              THEN C17_CtrBlock(1, inc(orig)) ELSE << >>)
                          \o (IF Len(data) > 2 * BLOCK_SIZE_BYTES
                              THEN C17_CtrBlock(2, inc(inc(orig))) ELSE << >>)

\* [0,...,0,0xFF] became [0,...,0,1,0x00]
C17_Witness ==
    /\ call = "inc"
    /\ orig = Repeat(0, BLOCK_SIZE_BYTES - 1) \o <<255>>
    /\ ret.val = Repeat(0, BLOCK_SIZE_BYTES - 2) \o <<1, 0>>
    /\ iv = orig

(***************************************************************************)
(* GHASH: the caller hands a subkey and data to ghash, or data and a block *)
(* to block_product                                                        *)
(***************************************************************************)
MaxGhashLen == 32

NumOperandSeeds == 3

\* the block with only its first bit set, and the block of zero bytes
FirstBit == <<128>> \o Repeat(0, BLOCK_SIZE_BYTES - 1)

ZeroBlock == Repeat(0, BLOCK_SIZE_BYTES)

GhashSubkeys == {Bytes(BLOCK_SIZE_BYTES, 71), Bytes(BLOCK_SIZE_BYTES, 72), FirstBit}

GhashData ==
    {Bytes(n, 73) : n \in {0, BLOCK_SIZE_BYTES - 1, BLOCK_SIZE_BYTES,
                           BLOCK_SIZE_BYTES + 1, MaxGhashLen}}
        \cup {ZeroBlock, Bytes(BLOCK_SIZE_BYTES, 74)}

GhashOperands ==
    {Bytes(BLOCK_SIZE_BYTES, 80 + s) : s \in 1..NumOperandSeeds}
        \cup {Bytes(BLOCK_SIZE_BYTES - 1, 75), Bytes(BLOCK_SIZE_BYTES + 1, 76)}

InitGhash ==
    /\ key \in GhashSubkeys
    /\ data \in GhashData
    /\ orig = data
    /\ iv \in GhashOperands
    /\ tag = << >>
    /\ mode = "pkcs7"
    /\ sched = << >>
    /\ call = "none"
    /\ ret = Ok(<< >>)
    /\ flipped = "none"
    /\ OthersIdle

NextGhash == CallGhash \/ CallBlockProduct

SpecGhash == InitGhash /\ [][NextGhash]_vars

\* C18: block_product is commutative: block_product(X, Y) ==
\* block_product(Y, X) for all 16-byte X and Y.
C18_Commutative ==
    (call = "block_product" /\ Len(data) = 16 /\ Len(iv) = 16) =>
        /\ ret.ok
        /\ ret = block_product(iv, data)

\* two different blocks were multiplied and the product is not zero
C18_Witness ==
    /\ call = "block_product"
    /\ Len(data) = 16
    /\ Len(iv) = 16
    /\ data # iv
    /\ ret.ok
    /\ ret.val # ZeroBlock

\* C19: ghash raises and returns no value whenever len(data) is not a multiple
\* of 16; block_product raises whenever either operand is not exactly 16 bytes;
\* for block-aligned data and a 16-byte subkey ghash returns exactly 16 bytes.
C19_LengthChecks ==
    /\ (call = "ghash" /\ Len(data) % 16 # 0) =>
           /\ ~ret.ok
           /\ ret.val = << >>
           /\ ret.err.kind = "ValueError"
    /\ (call = "ghash" /\ Len(data) % 16 = 0 /\ Len(key) = 16) =>
           /\ ret.ok
           /\ Len(ret.val) = 16
           /\ \A i \in 1..16 : ret.val[i] \in 0..255
    /\ (call = "block_product" /\ (Len(data) # 16 \/ Len(iv) # 16)) =>
           /\ ~ret.ok
           /\ ret.val = << >>
           /\ ret.err.kind = "ValueError"

\* ghash was given 17 bytes and raised
C19_Witness ==
    /\ call = "ghash"
    /\ Len(data) = BLOCK_SIZE_BYTES + 1
    /\ ~ret.ok
    /\ ret.err.kind = "ValueError"

\* C20: for every 16-byte subkey H, ghash(H, 16 zero bytes) is 16 zero bytes.
C20_ZeroHash ==
    (call = "ghash" /\ Len(key) = 16 /\ data = ZeroBlock) => ret = Ok(ZeroBlock)

\* ghash was given a subkey that is not zero and 16 zero bytes
C20_Witness ==
    /\ call = "ghash"
    /\ data = ZeroBlock
    /\ key = Bytes(BLOCK_SIZE_BYTES, 71)
    /\ key # ZeroBlock
    /\ ret.val = ZeroBlock

(***************************************************************************)
(* Concurrent invocations.  Two invocations run at once, each on argument  *)
(* lists of its own, and their statements interleave.  heap holds the      *)
(* lists by reference (a reference is an index of heap): the six argument  *)
(* lists, then every list a data[:] creates.  A frame keeps each           *)
(* function's local names apart: ke_data is the data of key_expansion,     *)
(* inc_data and inc_i the data and i of inc, iv the iv of the iter_vector  *)
(* generator, acc the encrypted_data or decrypted_data being built.        *)
(* Lists that are built by an expression and never written again           *)
(* (expanded_key, acc, previous_cipher_block) are kept by value.  The      *)
(* tables (SBOX, RCON, ...) are tuples, which no statement can write.      *)
(***************************************************************************)
Procs == {1, 2}

MaxConcLen == 33

\* the arguments of invocation p; its iv ends with p bytes 0xFF
ConcData(p) == Bytes(MaxConcLen - (BLOCK_SIZE_BYTES * (p - 1)), 30 + p)

ConcKey(p) == Bytes(IF p = 1 THEN 16 ELSE 24, 40 + p)

ConcIv(p) == Bytes(BLOCK_SIZE_BYTES - p, 50 + p) \o Repeat(255, p)

\* where the arguments of invocation p are in heap
DataRef(p) == (3 * (p - 1)) + 1

KeyRef(p) == (3 * (p - 1)) + 2

IvRef(p) == (3 * (p - 1)) + 3

ConcArgs == << ConcData(1), ConcKey(1), ConcIv(1), ConcData(2), ConcKey(2), ConcIv(2) >>

\* the operations an invocation may be
PROGRAMS == {"key_expansion", "inc", "aes_ctr_encrypt", "aes_cbc_decrypt"}

FirstPc(name) ==
    CASE name = "key_expansion"   -> "ke_copy"
      [] name = "inc"             -> "inc_copy"
      [] name = "aes_ctr_encrypt" -> "ctr_expand"
      [] name = "aes_cbc_decrypt" -> "cbc_expand"

\* the local names of invocation p when it starts: key_expansion is called on
\* the key, inc on the iv
Frame(p) ==
    [data |-> DataRef(p), key |-> KeyRef(p), iv |-> IvRef(p),
     ke_data |-> KeyRef(p), key_size |-> 0, rcon_iteration |-> 1,
     inc_data |-> IvRef(p), inc_i |-> 0, ret_pc |-> "done",
     expanded_key |-> << >>, counter_block |-> 0, i |-> 0, acc |-> << >>,
     previous_cipher_block |-> << >>]

InitConc ==
    /\ key = << >>
    /\ data = << >>
    /\ orig = << >>
    /\ iv = << >>
    /\ tag = << >>
    /\ mode = "pkcs7"
    /\ sched = << >>
    /\ call = "none"
    /\ ret = Ok(<< >>)
    /\ flipped = "none"
    /\ TextIdle
    /\ SaverIdle
    /\ prog \in [Procs -> PROGRAMS]
    /\ pc = [p \in Procs |-> FirstPc(prog[p])]
    /\ heap = ConcArgs
    /\ loc = [p \in Procs |-> Frame(p)]
    /\ out = [p \in Procs |-> Ok(<< >>)]

\* what no concurrent invocation touches
single == << key, data, iv, tag, mode, sched, orig, call, ret, flipped,
             password, key_size_bytes, prog, saver >>

\* data[:] that copies nothing: the name keeps pointing at the list it was given
CopyList_Alias(h, ref) == [heap |-> h, ref |-> ref]

\* aes.py:421, 511  data = data[:] makes a new list with the same items
CopyList(h, ref) == [heap |-> Append(h, h[ref]), ref |-> Len(h) + 1]

\* invocation p returns value (or raises it)
Return(p, value) ==
    /\ out' = [out EXCEPT ![p] = value]
    /\ pc' = [pc EXCEPT ![p] = "done"]

\* aes.py:421-424
KeCopy(p) ==
    /\ pc[p] = "ke_copy"
    /\ LET c == CopyList(heap, loc[p].ke_data)
       IN  /\ heap' = c.heap
           /\ loc' = [loc EXCEPT ![p].ke_data = c.ref,
                                 ![p].key_size = Len(heap[loc[p].ke_data]),
                                 ![p].rcon_iteration = 1]
    /\ pc' = [pc EXCEPT ![p] = "ke_loop"]
    /\ UNCHANGED << single, out >>

\* the expanded_key_size_bytes of the frame of p (aes.py:424)
KeSize(p) == (loc[p].key_size \div 4 + 7) * BLOCK_SIZE_BYTES

\* aes.py:426-443  one pass of the while loop: every += writes to the list
\* that ke_data names
KePass(p) ==
    /\ pc[p] = "ke_loop"
    /\ Len(heap[loc[p].ke_data]) < KeSize(p)
    /\ LET d    == heap[loc[p].ke_data]
           core == key_schedule_core(PySliceFrom(d, -4), loc[p].rcon_iteration)
       IN  IF ~core.ok
           THEN Return(p, core) /\ UNCHANGED << heap, loc >>
           ELSE /\ heap' = [heap EXCEPT ![loc[p].ke_data] =
                               ExpandExtra(ExpandPlain(ExpandWord(d, core.val,
                                                                  loc[p].key_size),
                                                       loc[p].key_size, 3),
                                           loc[p].key_size)]
                /\ loc' = [loc EXCEPT ![p].rcon_iteration = @ + 1]
                /\ UNCHANGED << pc, out >>
    /\ UNCHANGED single

\* aes.py:426, 444
KeReturn(p) ==
    /\ pc[p] = "ke_loop"
    /\ Len(heap[loc[p].ke_data]) >= KeSize(p)
    /\ Return(p, Ok(PySlice(heap[loc[p].ke_data], 0, KeSize(p))))
    /\ UNCHANGED << single, heap, loc >>

\* aes.py:511
IncCopy(p) ==
    /\ pc[p] = "inc_copy"
    /\ LET c == CopyList(heap, loc[p].inc_data)
       IN  /\ heap' = c.heap
           /\ loc' = [loc EXCEPT ![p].inc_data = c.ref,
                                 ![p].inc_i = Len(heap[loc[p].inc_data]) - 1]
    /\ pc' = [pc EXCEPT ![p] = "inc_loop"]
    /\ UNCHANGED << single, out >>

\* aes.py:512-517  one pass of the for loop: data[i] = ... writes to the list
\* that inc_data names
IncStep(p) ==
    /\ pc[p] = "inc_loop"
    /\ loc[p].inc_i >= 0
    /\ IF heap[loc[p].inc_data][loc[p].inc_i + 1] = 255
       THEN /\ heap' = [heap EXCEPT ![loc[p].inc_data][loc[p].inc_i + 1] = 0]
            /\ loc' = [loc EXCEPT ![p].inc_i = @ - 1]
            /\ UNCHANGED pc
       ELSE /\ heap' = [heap EXCEPT ![loc[p].inc_data][loc[p].inc_i + 1] = @ + 1]
            /\ pc' = [pc EXCEPT ![p] = "inc_return"]
            /\ UNCHANGED loc
    /\ UNCHANGED << single, out >>

\* aes.py:518: the list goes to the caller, and to the generator of line 450
\* when that one called (iv = inc(iv), then yield iv)
IncReturn(p) ==
    /\ pc[p] = "inc_return" \/ (pc[p] = "inc_loop" /\ loc[p].inc_i < 0)
    /\ IF loc[p].ret_pc = "done"
       THEN Return(p, Ok(heap[loc[p].inc_data])) /\ UNCHANGED loc
       ELSE /\ loc' = [loc EXCEPT ![p].iv = loc[p].inc_data,
                                  ![p].counter_block = loc[p].inc_data]
            /\ pc' = [pc EXCEPT ![p] = loc[p].ret_pc]
            /\ UNCHANGED out
    /\ UNCHANGED << single, heap >>

\* aes.py:160-163, 185-188  expanded_key = key_expansion(key), then the loop
ModeExpand(p, to) ==
    /\ LET k == key_expansion(heap[loc[p].key])
       IN  IF ~k.ok
           THEN Return(p, k) /\ UNCHANGED loc
           ELSE /\ loc' = [loc EXCEPT ![p].expanded_key = k.val, ![p].i = 0,
                                      ![p].acc = << >>]
                /\ pc' = [pc EXCEPT ![p] = to]
                /\ UNCHANGED out
    /\ UNCHANGED << single, heap >>

CtrExpand(p) ==
    /\ pc[p] = "ctr_expand"
    /\ ModeExpand(p, "ctr_next")

\* aes.py:165-166  counter_block = next(counter): the generator yields the
\* caller's iv list itself the first time, and calls inc on its iv after that
CtrNext(p) ==
    /\ pc[p] = "ctr_next"
    /\ loc[p].i < BlockCount(Len(heap[loc[p].data]))
    /\ IF loc[p].i = 0
       THEN /\ loc' = [loc EXCEPT ![p].counter_block = loc[p].iv]
            /\ pc' = [pc EXCEPT ![p] = "ctr_block"]
       ELSE /\ loc' = [loc EXCEPT ![p].inc_data = loc[p].iv, ![p].ret_pc = "ctr_block"]
            /\ pc' = [pc EXCEPT ![p] = "inc_copy"]
    /\ UNCHANGED << single, heap, out >>

\* aes.py:167-171
CtrBlock(p) ==
    /\ pc[p] = "ctr_block"
    /\ LET cipher_counter_block ==
               aes_encrypt(heap[loc[p].counter_block], loc[p].expanded_key)
       IN  IF ~cipher_counter_block.ok
           THEN Return(p, cipher_counter_block) /\ UNCHANGED loc
           ELSE /\ loc' = [loc EXCEPT
                              ![p].acc = @ \o xor(ZeroFill(Chunk(heap[loc[p].data],
                                                                 loc[p].i)),
                                                  cipher_counter_block.val),
                              ![p].i = @ + 1]
                /\ pc' = [pc EXCEPT ![p] = "ctr_next"]
                /\ UNCHANGED out
    /\ UNCHANGED << single, heap >>

\* aes.py:165, 172
CtrReturn(p) ==
    /\ pc[p] = "ctr_next"
    /\ loc[p].i >= BlockCount(Len(heap[loc[p].data]))
    /\ Return(p, Ok(PySlice(loc[p].acc, 0, Len(heap[loc[p].data]))))
    /\ UNCHANGED << single, heap, loc >>

CbcExpand(p) ==
    /\ pc[p] = "cbc_expand"
    /\ ModeExpand(p, "cbc_block")

\* aes.py:189-195  previous_cipher_block is the caller's iv list for block 0
\* (line 187) and the zero-filled block after that
CbcBlock(p) ==
    /\ pc[p] = "cbc_block"
    /\ loc[p].i < BlockCount(Len(heap[loc[p].data]))
    /\ LET block == ZeroFill(Chunk(heap[loc[p].data], loc[p].i))
           decrypted_block == aes_decrypt(block, loc[p].expanded_key)
           previous == IF loc[p].i = 0 THEN heap[loc[p].iv]
                       ELSE loc[p].previous_cipher_block
       IN  IF ~decrypted_block.ok
           THEN Return(p, decrypted_block) /\ UNCHANGED loc
           ELSE /\ loc' = [loc EXCEPT
                              ![p].acc = @ \o xor(decrypted_block.val, previous),
                              ![p].previous_cipher_block = block,
                              ![p].i = @ + 1]
                /\ UNCHANGED << pc, out >>
    /\ UNCHANGED << single, heap >>

\* aes.py:189, 196
CbcReturn(p) ==
    /\ pc[p] = "cbc_block"
    /\ loc[p].i >= BlockCount(Len(heap[loc[p].data]))
    /\ Return(p, Ok(PySlice(loc[p].acc, 0, Len(heap[loc[p].data]))))
    /\ UNCHANGED << single, heap, loc >>

NextConc ==
    \/ \E p \in Procs : KeCopy(p)
    \/ \E p \in Procs : KePass(p)
    \/ \E p \in Procs : KeReturn(p)
    \/ \E p \in Procs : IncCopy(p)
    \/ \E p \in Procs : IncStep(p)
    \/ \E p \in Procs : IncReturn(p)
    \/ \E p \in Procs : CtrExpand(p)
    \/ \E p \in Procs : CtrNext(p)
    \/ \E p \in Procs : CtrBlock(p)
    \/ \E p \in Procs : CtrReturn(p)
    \/ \E p \in Procs : CbcExpand(p)
    \/ \E p \in Procs : CbcBlock(p)
    \/ \E p \in Procs : CbcReturn(p)

SpecConc == InitConc /\ [][NextConc]_vars

\* what invocation p returns when it runs alone
Alone(p) ==
    CASE prog[p] = "key_expansion"   -> key_expansion(ConcKey(p))
      [] prog[p] = "inc"             -> Ok(inc(ConcIv(p)))
      [] prog[p] = "aes_ctr_encrypt" -> aes_ctr_encrypt(ConcData(p), ConcKey(p), ConcIv(p))
      [] prog[p] = "aes_cbc_decrypt" -> aes_cbc_decrypt(ConcData(p), ConcKey(p), ConcIv(p))

\* C15: whatever the interleaving of two concurrent invocations on distinct
\* input buffers, each returns what it returns when run alone, and no invocation
\* modifies the data, key or iv list passed to it or to the other one.
C15_NonInterfering ==
    /\ \A p \in Procs : pc[p] = "done" => out[p] = Alone(p)
    /\ SubSeq(heap, 1, Len(ConcArgs)) = ConcArgs

\* both have returned, and the lists they created alternate in heap: the
\* counter blocks of invocation 1 were made before and after the copy of 2
C15_Witness ==
    /\ prog = << "aes_ctr_encrypt", "key_expansion" >>
    /\ pc = << "done", "done" >>
    /\ Len(heap) = 9
    /\ heap[7] = inc(ConcIv(1))
    /\ Len(heap[8]) >= 208
    /\ heap[9] = inc(inc(ConcIv(1)))
    /\ out[1].ok
    /\ Len(out[1].val) = MaxConcLen

(***************************************************************************)
(* livesaver.main.  main polls the two platforms, acts on what it found    *)
(* and sleeps, again and again.  The recorder and chat threads it starts   *)
(* run beside it and may end on their own at any moment.  A name of main   *)
(* holds None or a thread; of a thread the model keeps its class and       *)
(* whether it is still running.  A thread object is true in a condition    *)
(* whether it runs or not, only None is false.                             *)
(***************************************************************************)
\* livesaver.py:231-234, 254-257  a thread just made and started
Started(kind) == [kind |-> kind, alive |-> TRUE]

\* livesaver.py:95-107, 291-293  thread.stop() and thread.join(timeout=5): the
\* thread has ended, or it has not when the five seconds are over
Joined(thread, ended) ==
    IF thread = None THEN None ELSE [thread EXCEPT !.alive = thread.alive /\ ~ended]

\* the names of the threads of main
threads == << twitch_video_thread, twitch_chat_thread,
              youtube_video_thread, youtube_chat_thread >>

InitSaver ==
    /\ key = << >>
    /\ data = << >>
    /\ orig = << >>
    /\ iv = << >>
    /\ tag = << >>
    /\ mode = "pkcs7"
    /\ sched = << >>
    /\ call = "none"
    /\ ret = Ok(<< >>)
    /\ flipped = "none"
    /\ TextIdle
    /\ ConcIdle
    /\ at = "poll"
    /\ twitch_live = FALSE
    /\ youtube_live = FALSE
    /\ twitch_video_thread = None
    /\ twitch_chat_thread = None
    /\ youtube_video_thread = None
    /\ youtube_chat_thread = None

\* what main and its threads never touch
cipher == << key, data, iv, tag, mode, sched, orig, call, ret, flipped,
             password, key_size_bytes, conc >>

\* livesaver.py:225-245  Twitch is live and no Twitch thread is registered.
\* chat_raised: ChatDownloaderThread(...) raises at line 233, the statements
\* after it are skipped and line 282 logs the error
StartTwitch(chat_raised) ==
    /\ twitch_video_thread' = Started("TwitchRecorderThread")
    /\ IF chat_raised
       THEN UNCHANGED << twitch_chat_thread, youtube_video_thread, youtube_chat_thread >>
       ELSE /\ twitch_chat_thread' = Started("ChatDownloaderThread")
            /\ IF youtube_video_thread # None
               THEN /\ youtube_video_thread' = None
                    /\ youtube_chat_thread' = None
               ELSE UNCHANGED << youtube_video_thread, youtube_chat_thread >>

\* livesaver.py:248-257
StartYoutube ==
    /\ youtube_video_thread' = Started("YoutubeRecorderThread")
    /\ youtube_chat_thread' = Started("YoutubeRecorderThread")
    /\ UNCHANGED << twitch_video_thread, twitch_chat_thread >>

\* livesaver.py:260-268
StopTwitch ==
    /\ twitch_video_thread' = None
    /\ twitch_chat_thread' = None
    /\ UNCHANGED << youtube_video_thread, youtube_chat_thread >>

\* livesaver.py:271-279
StopYoutube ==
    /\ youtube_video_thread' = None
    /\ youtube_chat_thread' = None
    /\ UNCHANGED << twitch_video_thread, twitch_chat_thread >>

\* livesaver.py:220-282  one polling iteration: the two checks, then the first
\* branch of the if / elif chain whose condition holds, or none
Poll ==
    /\ at = "poll"
    /\ \E t \in BOOLEAN, y \in BOOLEAN, chat_raised \in BOOLEAN :
          /\ twitch_live' = t
          /\ youtube_live' = y
          /\ IF t /\ twitch_video_thread = None
             THEN StartTwitch(chat_raised)
             ELSE IF y /\ youtube_video_thread = None /\ ~t
             THEN StartYoutube
             ELSE IF ~t /\ twitch_video_thread # None
             THEN StopTwitch
             ELSE IF ~y /\ youtube_video_thread # None
             THEN StopYoutube
             ELSE UNCHANGED threads
    /\ at' = "sleep"
    /\ UNCHANGED cipher

\* livesaver.py:284  time.sleep(...) returns
Sleep ==
    /\ at = "sleep"
    /\ at' = "poll"
    /\ UNCHANGED << cipher, twitch_live, youtube_live, threads >>

\* livesaver.py:111-146  run returns: no streams, the read gave no data, or it
\* failed
TwitchRecorderExits ==
    /\ at \in {"poll", "sleep"}
    /\ twitch_video_thread.alive
    /\ twitch_video_thread' = [twitch_video_thread EXCEPT !.alive = FALSE]
    /\ UNCHANGED << cipher, at, twitch_live, youtube_live, twitch_chat_thread,
                    youtube_video_thread, youtube_chat_thread >>

\* livesaver.py:185-207  run returns: the chat ended or get_chat failed
TwitchChatExits ==
    /\ at \in {"poll", "sleep"}
    /\ twitch_chat_thread.alive
    /\ twitch_chat_thread' = [twitch_chat_thread EXCEPT !.alive = FALSE]
    /\ UNCHANGED << cipher, at, twitch_live, youtube_live, twitch_video_thread,
                    youtube_video_thread, youtube_chat_thread >>

\* livesaver.py:56-83  run returns: the download ended or failed
YoutubeRecorderExits ==
    /\ at \in {"poll", "sleep"}
    /\ youtube_video_thread.alive
    /\ youtube_video_thread' = [youtube_video_thread EXCEPT !.alive = FALSE]
    /\ UNCHANGED << cipher, at, twitch_live, youtube_live, twitch_video_thread,
                    twitch_chat_thread, youtube_chat_thread >>

\* livesaver.py:56-83  run of the thread made with download_chat
YoutubeChatExits ==
    /\ at \in {"poll", "sleep"}
    /\ youtube_chat_thread.alive
    /\ youtube_chat_thread' = [youtube_chat_thread EXCEPT !.alive = FALSE]
    /\ UNCHANGED << cipher, at, twitch_live, youtube_live, twitch_video_thread,
                    twitch_chat_thread, youtube_video_thread >>

\* livesaver.py:285-293  KeyboardInterrupt: every registered thread is stopped
\* and joined for five seconds at most; the names keep their threads
Interrupt ==
    /\ at \in {"poll", "sleep"}
    /\ at' = "done"
    /\ \E ended \in [1..4 -> BOOLEAN] :
          /\ youtube_video_thread' = Joined(youtube_video_thread, ended[1])
          /\ twitch_video_thread' = Joined(twitch_video_thread, ended[2])
          /\ youtube_chat_thread' = Joined(youtube_chat_thread, ended[3])
          /\ twitch_chat_thread' = Joined(twitch_chat_thread, ended[4])
    /\ UNCHANGED << cipher, twitch_live, youtube_live >>

NextSaver ==
    \/ Poll
    \/ Sleep
    \/ TwitchRecorderExits
    \/ TwitchChatExits
    \/ YoutubeRecorderExits
    \/ YoutubeChatExits
    \/ Interrupt

SpecSaver == InitSaver /\ [][NextSaver]_vars

\* C22: whenever a poll finds Twitch live and no Twitch recorder thread is
\* running (none was started, it was stopped, or it ended on its own), that
\* polling iteration starts a new TwitchRecorderThread and its chat thread.
C22_LiveStartsRecorder ==
    [][(at = "poll" /\ at' = "sleep" /\ twitch_live' /\ ~twitch_video_thread.alive)
          => (twitch_video_thread'.alive /\ twitch_chat_thread'.alive)]_vars

\* C23: at the end of every polling iteration at most one of
\* twitch_video_thread and youtube_video_thread is registered (not None).
C23_OneRegistered ==
    at = "sleep" => (twitch_video_thread = None \/ youtube_video_thread = None)

====
